---------------------------- MODULE Spec2Model ----------------------------
(***************************************************************************)
(* Verification model of the QuizForge compile pipeline                    *)
(* (longhornadam/QuizForge): point allocation, answer balancing,           *)
(* structural and fairness validation, numerical tolerance bounds, QTI     *)
(* generation with its round-trip check, and the two pipeline entry        *)
(* points.                                                                 *)
(*                                                                         *)
(* The module holds several specifications over one set of variables.      *)
(* Each specification draws its inputs in its Init and parks the           *)
(* variables it does not use at the value Unused.                          *)
(*                                                                         *)
(*   SpecPoints     calculate_points on a list of questions                *)
(*   SpecStructure  validate_structure on small quizzes                    *)
(*   SpecBounds     _resolve_numerical_bounds on parsed tolerance settings *)
(*   SpecValidate   QuizValidator.validate on imported quizzes              *)
(*   SpecCanvas     the two Canvas packagers on single-question quizzes     *)
(*   SpecPipeline   the two pipeline entry points on JSON payloads          *)
(***************************************************************************)
EXTENDS Integers, Sequences, FiniteSets, TLC

VARIABLES
    pc,            \* position of the modelled run
    questions,     \* quiz.questions: the ordered list of Question objects
    total_points,  \* target total handed to the point allocator
    input,         \* the questions as they were handed in (never modified)
    errors,        \* the error list produced by validation
    bounds,        \* what the numerical bounds resolution returned or raised
    entry,         \* the handler the modelled run executes
    calls,         \* the functions the handler has called so far, in order
    status,        \* ValidationResult.status
    warnings,      \* ValidationResult.warnings
    xml,           \* the assessment XML handed to the ZIP writer
    zip,           \* the Canvas ZIP written or returned
    raised,        \* the exception that left the handler
    physical,      \* what the physical (DOCX) handler returned
    fail_prompt    \* whether a *_FAIL_REVISE_WITH_AI.txt prompt was written

runVars == <<entry, calls, status, warnings, xml, zip, raised, physical, fail_prompt>>

vars == <<pc, questions, total_points, input, errors, bounds, runVars>>

Unused == "unused"
Null == "None"

\* The variables of the handler runs, parked by the specifications of the
\* pure functions.
NoRun ==
    /\ entry = Unused /\ calls = Unused /\ status = Unused
    /\ warnings = Unused /\ xml = Unused /\ zip = Unused
    /\ raised = Unused /\ physical = Unused /\ fail_prompt = Unused

----------------------------------------------------------------------------
(* Bounds of the model *)

MaxQuestions == 3      \* longest question list given to calculate_points
MaxTotal == 12         \* largest small target total tried (besides 100)
MaxChoices == 8        \* longest choice list tried by the structure checks
MaxEntries == 3        \* longest pair / item / category list tried
MaxCoeff == 12         \* largest coefficient of a numerical answer
MaxMargin == 5         \* largest coefficient of a tolerance margin
MaxPrecision == 3      \* largest precision (digits or decimal places)

----------------------------------------------------------------------------
(* Generic helpers *)

RECURSIVE SumSeq(_)
SumSeq(s) == IF s = <<>> THEN 0 ELSE Head(s) + SumSeq(Tail(s))

SeqsUpTo(S, n) == UNION {[1..k -> S] : k \in 0..n}

Perms(n) == {p \in [1..n -> 1..n] : \A i, j \in 1..n : i # j => p[i] # p[j]}

----------------------------------------------------------------------------
(* Question model: engine/core/questions.py *)

\* Question base class with the dataclass defaults (points = 10.0,
\* points_set = False); the variant payloads are added by later sections.
Question(qtype, prompt) ==
    [qtype |-> qtype, prompt |-> prompt, points |-> 10, points_set |-> FALSE]

\* StimulusItem / StimulusEnd as the importers build them (points = 0.0).
StimulusItem(prompt) == [Question("STIMULUS", prompt) EXCEPT !.points = 0]
\* Mutation of StimulusEnd: the default points of Question are kept.
StimulusEndScored(prompt) == Question("STIMULUS_END", prompt)
StimulusEnd(prompt) == [Question("STIMULUS_END", prompt) EXCEPT !.points = 0]

\* isinstance(q, (StimulusItem, StimulusEnd))
IsStimulus(q) == q.qtype \in {"STIMULUS", "STIMULUS_END"}

----------------------------------------------------------------------------
(* Point allocation: engine/validation/point_calculator.py *)

DEFAULT_QUIZ_POINTS == 100

\* SHARE_WEIGHTS.get(q.qtype, 1)
SHARE_WEIGHTS(qtype) ==
    CASE qtype \in {"MATCHING", "ORDERING"} -> 2
      [] qtype \in {"ESSAY", "FILEUPLOAD"} -> 4
      [] OTHER -> 1

\* Mutation of the scorable filter: stimulus items are not excluded.
ScorableIndicesAll(qs) == {i \in 1..Len(qs) : TRUE}

\* scorable = [q for q in questions if not isinstance(q, (StimulusItem, StimulusEnd))]
ScorableIndices(qs) == {i \in 1..Len(qs) : ~IsStimulus(qs[i])}

\* The indices of a set in increasing order (list order of `scorable`).
RECURSIVE SortedIndices(_)
SortedIndices(S) ==
    IF S = {} THEN <<>>
    ELSE LET m == CHOOSE x \in S : \A y \in S : x <= y
         IN <<m>> \o SortedIndices(S \ {m})

\* raw = weight * (remaining_total / total_shares); floor_points = int(raw);
\* remainder = raw - floor_points.  The remainder is kept as its numerator
\* over total_shares.  The float quotient is exact enough for both: the
\* weights are powers of two, so an integral raw is computed exactly, and a
\* non-integral one is at least 1/total_shares away from an integer.
FloorPoints(weight, total, total_shares) == (weight * total) \div total_shares
RemainderNum(weight, total, total_shares) == (weight * total) % total_shares

\* provisional.sort(key=remainder, reverse=True): a stable sort.  Entries of
\* equal weight have identical float remainders and keep their order; entries
\* of different weight whose exact remainders tie are ordered by float
\* rounding noise, which is modelled as either order.
SortOrders(sc, qs, total, total_shares) ==
    LET n == Len(sc)
        w(k) == SHARE_WEIGHTS(qs[sc[k]].qtype)
        r(k) == RemainderNum(w(k), total, total_shares)
    IN {p \in Perms(n) :
          \A a, b \in 1..n : a < b =>
              /\ r(p[a]) >= r(p[b])
              /\ (r(p[a]) = r(p[b]) /\ w(p[a]) = w(p[b])) => p[a] < p[b]}

\* The loop distributing remainder_points over the sorted provisional list:
\* the first remainder_points entries get bonus 1.
PointsAfterBonus(floor_points, position, remainder_points) ==
    floor_points + (IF position <= remainder_points THEN 1 ELSE 0)

\* calculate_points(questions, total_points) for one sort order `p`.
CalculatePointsWith(qs, total, p) ==
    LET sc == SortedIndices(ScorableIndices(qs))
        n == Len(sc)
        total_shares == SumSeq([k \in 1..n |-> SHARE_WEIGHTS(qs[sc[k]].qtype)])
        fl(k) == FloorPoints(SHARE_WEIGHTS(qs[sc[k]].qtype), total, total_shares)
        assigned_total == SumSeq([k \in 1..n |-> fl(k)])
        remainder_points == total - assigned_total
        \* points of the entry at sorted position a
        pts(a) == PointsAfterBonus(fl(p[a]), a, remainder_points)
        final_total == SumSeq([a \in 1..n |-> pts(a)])
        drift == total - final_total
        final(a) == IF drift # 0 /\ a = n THEN pts(a) + drift ELSE pts(a)
        posOf(k) == CHOOSE a \in 1..n : p[a] = k
        idxOf(i) == CHOOSE k \in 1..n : sc[k] = i
    IN [i \in 1..Len(qs) |->
          IF i \in ScorableIndices(qs)
          THEN [qs[i] EXCEPT !.points = final(posOf(idxOf(i))), !.points_set = TRUE]
          ELSE qs[i]]

\* The set of lists calculate_points can return.
CalculatePoints(qs, total) ==
    LET sc == SortedIndices(ScorableIndices(qs))
        total_shares == SumSeq([k \in 1..Len(sc) |-> SHARE_WEIGHTS(qs[sc[k]].qtype)])
    IN IF sc = <<>> THEN {qs}
       ELSE IF total_shares = 0 THEN {qs}
       ELSE {CalculatePointsWith(qs, total, p) : p \in SortOrders(sc, qs, total, total_shares)}

----------------------------------------------------------------------------
(* SpecPoints: calculate_points applied to every small question list *)

PointQTypes == {"MC", "MATCHING", "ESSAY", "STIMULUS"}
PointTotals == (1..MaxTotal) \cup {DEFAULT_QUIZ_POINTS}

InitPoints ==
    /\ pc = "points_start"
    /\ questions \in {[i \in DOMAIN ts |->
                          IF ts[i] = "STIMULUS" THEN StimulusItem("Q")
                          ELSE Question(ts[i], "Q")] :
                        ts \in SeqsUpTo(PointQTypes, MaxQuestions)}
    /\ total_points \in PointTotals
    /\ input = Unused
    /\ errors = Unused
    /\ bounds = Unused
    /\ NoRun

DoCalculatePoints ==
    /\ pc = "points_start"
    /\ questions' \in CalculatePoints(questions, total_points)
    /\ pc' = "points_done"
    /\ UNCHANGED <<total_points, input, errors, bounds, runVars>>

NextPoints == DoCalculatePoints

SpecPoints == InitPoints /\ [][NextPoints]_vars

----------------------------------------------------------------------------
(* C1: after calculate_points on a list with at least one scorable         *)
(* (non-Stimulus, non-StimulusEnd) question and a positive integer target, *)
(* the integer points of the scorable questions sum to exactly the target. *)

ScorablePointSum(qs) ==
    SumSeq([i \in 1..Len(qs) |->
              IF qs[i].qtype \in {"STIMULUS", "STIMULUS_END"} THEN 0 ELSE qs[i].points])

HasScorable(qs) == \E i \in 1..Len(qs) : qs[i].qtype \notin {"STIMULUS", "STIMULUS_END"}

C1_PointsSumToTarget ==
    (pc = "points_done" /\ HasScorable(questions) /\ total_points > 0)
        => ScorablePointSum(questions) = total_points

\* The spec's example shape: MC questions plus one Essay, target 100, with a
\* rounding remainder to distribute.
C1_Witness ==
    /\ pc = "points_done"
    /\ total_points = DEFAULT_QUIZ_POINTS
    /\ Len(questions) = 3
    /\ \E i \in 1..3 : questions[i].qtype = "ESSAY"
    /\ \E i \in 1..3 : questions[i].qtype = "MC"
    /\ ScorablePointSum(questions) = 100

----------------------------------------------------------------------------
(* Question variants: engine/core/questions.py.  The class of a question   *)
(* is carried by qtype, which the importers set together with the class.   *)

MCChoice(text, correct) == [text |-> text, correct |-> correct]

MCQuestion(prompt, choices) ==
    [qtype |-> "MC", prompt |-> prompt, points |-> 10, points_set |-> FALSE,
     choices |-> choices]

MAQuestion(prompt, choices) ==
    [qtype |-> "MA", prompt |-> prompt, points |-> 10, points_set |-> FALSE,
     choices |-> choices]

TFQuestion(prompt, answer_true) ==
    [qtype |-> "TF", prompt |-> prompt, points |-> 10, points_set |-> FALSE,
     answer_true |-> answer_true]

MatchingPair(prompt, answer) == [prompt |-> prompt, answer |-> answer]

MatchingQuestion(prompt, pairs) ==
    [qtype |-> "MATCHING", prompt |-> prompt, points |-> 10, points_set |-> FALSE,
     pairs |-> pairs]

OrderingQuestion(prompt, items, header) ==
    [qtype |-> "ORDERING", prompt |-> prompt, points |-> 10, points_set |-> FALSE,
     items |-> items, header |-> header]

CategoryMapping(item_text, category_name) ==
    [item_text |-> item_text, category_name |-> category_name]

CategorizationQuestion(prompt, categories, items) ==
    [qtype |-> "CATEGORIZATION", prompt |-> prompt, points |-> 10,
     points_set |-> FALSE, categories |-> categories, items |-> items]

----------------------------------------------------------------------------
(* Strings.  Texts are TLA+ strings; Head, Tail, Len and \o act on them    *)
(* character by character.                                                 *)

IsSpace(c) == c \in {" ", "\t", "\n", "\r"}

RECURSIVE LStrip(_)
LStrip(s) == IF s = "" THEN s ELSE IF IsSpace(Head(s)) THEN LStrip(Tail(s)) ELSE s

RECURSIVE RStrip(_)
RStrip(s) ==
    IF s = "" THEN s
    ELSE IF IsSpace(SubSeq(s, Len(s), Len(s))) THEN RStrip(SubSeq(s, 1, Len(s) - 1))
    ELSE s

\* str.strip()
Strip(s) == RStrip(LStrip(s))

\* `not s or not s.strip()`
IsBlank(s) == s = Null \/ s = "" \/ Strip(s) = ""

----------------------------------------------------------------------------
(* Structural validation: engine/validation/rules/structure_rules.py       *)

\* An error message, kept as the question number of its prefix (0 for a
\* quiz-level message) and the leading words of its text.
Err(index, msg) == [index |-> index, msg |-> msg]

CorrectCount(choices) == Cardinality({i \in 1..Len(choices) : choices[i].correct})

\* validate_render_mode is disabled and returns no errors.
validate_render_mode(qs) == <<>>

\* Mutation of validate_mc: the upper limit on the number of choices is lost.
validate_mc_no_max(q, i) ==
    IF Len(q.choices) = 0 THEN <<Err(i, "MC question missing Choices field")>>
    ELSE (IF Len(q.choices) < 2
            THEN <<Err(i, "MC question must have at least 2 choices")>> ELSE <<>>)
      \o (IF CorrectCount(q.choices) = 0
            THEN <<Err(i, "MC question must have exactly 1 correct choice (found 0)")>>
          ELSE IF CorrectCount(q.choices) > 1
            THEN <<Err(i, "MC question must have exactly 1 correct choice (found many)")>>
          ELSE <<>>)

\* _validate_mc(question, prefix)
validate_mc(q, i) ==
    IF Len(q.choices) = 0 THEN <<Err(i, "MC question missing Choices field")>>
    ELSE (IF Len(q.choices) < 2
            THEN <<Err(i, "MC question must have at least 2 choices")>> ELSE <<>>)
      \o (IF Len(q.choices) > 7
            THEN <<Err(i, "MC question can have at most 7 choices")>> ELSE <<>>)
      \o (IF CorrectCount(q.choices) = 0
            THEN <<Err(i, "MC question must have exactly 1 correct choice (found 0)")>>
          ELSE IF CorrectCount(q.choices) > 1
            THEN <<Err(i, "MC question must have exactly 1 correct choice (found many)")>>
          ELSE <<>>)

\* _validate_ma(question, prefix)
validate_ma(q, i) ==
    IF Len(q.choices) = 0 THEN <<Err(i, "MA question missing Choices field")>>
    ELSE (IF Len(q.choices) < 2
            THEN <<Err(i, "MA question must have at least 2 choices")>> ELSE <<>>)
      \o (IF CorrectCount(q.choices) = 0
            THEN <<Err(i, "MA question must have at least 1 correct choice")>> ELSE <<>>)

\* TF questions are always valid if they have a prompt.
validate_tf(q, i) == <<>>

validate_matching(q, i) ==
    IF Len(q.pairs) = 0 THEN <<Err(i, "Matching question missing Pairs field")>>
    ELSE IF Len(q.pairs) < 2
      THEN <<Err(i, "Matching question must have at least 2 pairs")>>
    ELSE <<>>

validate_ordering(q, i) ==
    IF Len(q.items) = 0 THEN <<Err(i, "Ordering question missing Items field")>>
    ELSE IF Len(q.items) < 2
      THEN <<Err(i, "Ordering question must have at least 2 items")>>
    ELSE <<>>

validate_categorization(q, i) ==
       (IF Len(q.categories) = 0
          THEN <<Err(i, "Categorization question missing Categories field")>>
        ELSE IF Len(q.categories) < 2
          THEN <<Err(i, "Categorization question must have at least 2 categories")>>
        ELSE <<>>)
    \o (IF Len(q.items) = 0
          THEN <<Err(i, "Categorization question missing Items field")>>
        ELSE <<>>)

----------------------------------------------------------------------------
(* decimal.Decimal values.  A Decimal is kept as its integer coefficient c *)
(* and its exponent e (value c * 10^e), as Python keeps it.                *)

Dec(c, e) == [c |-> c, e |-> e]

\* The context precision of the decimal module (getcontext().prec).
DECIMAL_PREC == 28

RECURSIVE Pow10(_)
Pow10(n) == IF n <= 0 THEN 1 ELSE 10 * Pow10(n - 1)

Abs(n) == IF n < 0 THEN -n ELSE n

RECURSIVE NumDigits(_)
NumDigits(n) == IF Abs(n) < 10 THEN 1 ELSE 1 + NumDigits(Abs(n) \div 10)

\* Decimal.adjusted(): the exponent of the most significant digit.
Adjusted(a) == NumDigits(a.c) - 1 + a.e

\* The numeric value in lowest terms (trailing zeros of the coefficient
\* removed); two Decimals compare equal exactly when these agree.
RECURSIVE DecNorm(_)
DecNorm(a) ==
    IF a.c = 0 THEN Dec(0, 0)
    ELSE IF a.c % 10 = 0 THEN DecNorm(Dec(a.c \div 10, a.e + 1))
    ELSE a

DecEq(a, b) == DecNorm(a) = DecNorm(b)

\* a + b.  The exact sum has the smaller of the two exponents.  An operand
\* whose leading digit lies DECIMAL_PREC or more digits above that exponent
\* makes the exact sum overflow the context precision: the sum is rounded
\* and takes the value of that operand.  (Operands of the model are within a
\* few digits of each other or hundreds of digits apart.)
DecAdd(a, b) ==
    LET m == IF a.e < b.e THEN a.e ELSE b.e
        fits(x) == x.c = 0 \/ Adjusted(x) - m < DECIMAL_PREC
        term(x) == IF x.c = 0 THEN 0 ELSE x.c * Pow10(x.e - m)
    IN IF fits(a) /\ fits(b) THEN Dec(term(a) + term(b), m)
       ELSE IF ~fits(a) THEN DecNorm(a)
       ELSE DecNorm(b)

DecNeg(a) == Dec(-a.c, a.e)

DecSub(a, b) == DecAdd(a, DecNeg(b))

\* abs(a) and a.copy_abs()
DecAbs(a) == Dec(Abs(a.c), a.e)

DecMul(a, b) == Dec(a.c * b.c, a.e + b.e)

\* a / Decimal("100"): exact; the exponent is brought as close to the ideal
\* exponent a.e as the exact quotient allows.
RECURSIVE DecReduceTo(_, _)
DecReduceTo(a, ideal) ==
    IF a.c = 0 THEN Dec(0, ideal)
    ELSE IF a.e < ideal /\ a.c % 10 = 0 THEN DecReduceTo(Dec(a.c \div 10, a.e + 1), ideal)
    ELSE a

DecDiv100(a) == DecReduceTo(Dec(a.c, a.e - 2), a.e)

\* Decimal(10) ** k
DecPow10(k) == IF k >= 0 THEN Dec(Pow10(k), 0) ELSE Dec(1, k)

\* Sign of a - b, for a and b within a few digits of each other or with one
\* of them zero.
DecSign(a) == IF a.c > 0 THEN 1 ELSE IF a.c < 0 THEN -1 ELSE 0

DecLess(a, b) == DecSign(DecSub(a, b)) < 0

DecLeq(a, b) == DecSign(DecSub(a, b)) <= 0

----------------------------------------------------------------------------
(* Numerical answers: engine/core/answers.py and the bounds resolution of  *)
(* engine/parsing/text_parser.py                                           *)

\* Optional[...] values: None is the empty tuple, a present value v is <<v>>.
None == <<>>
Some(v) == <<v>>
Get(x) == x[1]

\* A raised exception, and a normally returned (lower, upper, strict_lower).
Raised(kind) == [raised |-> kind]
Bounds(lower, upper, strict_lower) ==
    [raised |-> Null, lower |-> lower, upper |-> upper, strict_lower |-> strict_lower]

\* float(answer) == 0.0: a Decimal below half the smallest subnormal double
\* (2^-1075, about 2.4703e-324) converts to 0.0.  Coefficients have at most
\* three digits here.
FloatIsZero(a) ==
    \/ a.c = 0
    \/ Adjusted(a) < -324
    \/ (Adjusted(a) = -324 /\ Abs(a.c) * Pow10(3 - NumDigits(a.c)) <= 247)

\* math.floor(math.log10(abs(float(answer)))) for a non-zero float in the
\* normal double range with a short coefficient, where the conversion keeps
\* the decimal exponent (it agrees with CPython for every coefficient below
\* 1000 and exponent in -30..30).
FloatFloorLog10(a) == Adjusted(a)

\* _compute_significant_digit_bounds(answer, sig_digits)
compute_significant_digit_bounds(answer, sig_digits) ==
    IF sig_digits < 0 THEN Raised("ValueError")
    ELSE LET offset == IF FloatIsZero(answer) THEN Dec(5, -1)
                       ELSE DecMul(Dec(5, -1),
                                   DecPow10(FloatFloorLog10(answer) - sig_digits + 1))
         IN Bounds(DecSub(answer, offset), DecAdd(answer, offset), TRUE)

\* _compute_decimal_place_bounds(answer, decimal_places)
compute_decimal_place_bounds(answer, decimal_places) ==
    IF decimal_places < 0 THEN Raised("ValueError")
    ELSE LET offset == DecMul(Dec(5, -1), DecPow10(-decimal_places))
         IN Bounds(DecSub(answer, offset), DecAdd(answer, offset), TRUE)

\* _resolve_numerical_bounds(answer, mode, margin, range_min, range_max, precision)
resolve_numerical_bounds(answer, mode, margin, range_min, range_max, precision) ==
    CASE mode = "exact" ->
           IF answer = None THEN Raised("ValueError")
           ELSE Bounds(Get(answer), Get(answer), FALSE)
      [] mode = "percent_margin" ->
           IF answer = None \/ margin = None THEN Raised("ValueError")
           ELSE LET offset == DecMul(DecAbs(Get(answer)), DecDiv100(DecAbs(Get(margin))))
                IN Bounds(DecSub(Get(answer), offset), DecAdd(Get(answer), offset), FALSE)
      [] mode = "absolute_margin" ->
           IF answer = None \/ margin = None THEN Raised("ValueError")
           ELSE LET offset == DecAbs(Get(margin))
                IN Bounds(DecSub(Get(answer), offset), DecAdd(Get(answer), offset), FALSE)
      [] mode = "range" ->
           IF range_min = None \/ range_max = None THEN Raised("ValueError")
           ELSE Bounds(Get(range_min), Get(range_max), FALSE)
      [] mode = "significant_digits" ->
           IF answer = None \/ precision = None THEN Raised("ValueError")
           ELSE compute_significant_digit_bounds(Get(answer), Get(precision))
      [] mode = "decimal_places" ->
           IF answer = None \/ precision = None THEN Raised("ValueError")
           ELSE compute_decimal_place_bounds(Get(answer), Get(precision))
      [] OTHER -> Raised("ValueError")

\* NumericalAnswer dataclass
NumericalAnswer(answer, tolerance_mode, margin_value, range_min, range_max, precision_value, lower_bound, upper_bound, strict_lower) ==
    [answer |-> answer, tolerance_mode |-> tolerance_mode,
     margin_value |-> margin_value, range_min |-> range_min, range_max |-> range_max,
     precision_value |-> precision_value, lower_bound |-> lower_bound,
     upper_bound |-> upper_bound, strict_lower |-> strict_lower]

\* NumericalAnswer.validate(): the list of error messages.
NumericalAnswer_validate(a) ==
    LET mode == a.tolerance_mode
        margin_errors(name) ==
            IF a.margin_value = None THEN <<name \o " requires tolerance value">>
            ELSE IF Get(a.margin_value).c < 0 THEN <<name \o " must be non-negative">>
            ELSE <<>>
        precision_errors(name) ==
            IF a.precision_value = None THEN <<name \o " mode requires precision value">>
            ELSE IF Get(a.precision_value) < 0 THEN <<"Precision must be non-negative">>
            ELSE <<>>
    IN (IF mode # "range" /\ a.answer = None
          THEN <<"Numerical question requires answer">> ELSE <<>>)
    \o (CASE mode = "percent_margin" -> margin_errors("Percent margin")
          [] mode = "absolute_margin" -> margin_errors("Absolute margin")
          [] mode = "significant_digits" -> precision_errors("Significant digits")
          [] mode = "decimal_places" -> precision_errors("Decimal places")
          [] mode = "range" ->
               IF a.range_min = None \/ a.range_max = None
                 THEN <<"Range mode requires both minimum and maximum values">>
               ELSE IF ~DecLess(Get(a.range_min), Get(a.range_max))
                 THEN <<"Range minimum must be less than maximum">>
               ELSE <<>>
          [] OTHER -> <<>>)
    \o (IF a.lower_bound = None \/ a.upper_bound = None
          THEN <<"Computed bounds missing for numerical question">>
        ELSE IF DecLess(Get(a.upper_bound), Get(a.lower_bound))
          THEN <<"Lower bound cannot exceed upper bound">>
        ELSE <<>>)

NumericalQuestion(prompt, answer) ==
    [qtype |-> "NUMERICAL", prompt |-> prompt, points |-> 10, points_set |-> FALSE,
     answer |-> answer]

----------------------------------------------------------------------------
(* Structural validation of a question and of a quiz                       *)

FITBQuestion(prompt, variants, answer_mode, options, variants_per_blank, blank_tokens) ==
    [qtype |-> "FITB", prompt |-> prompt, points |-> 10, points_set |-> FALSE,
     variants |-> variants, answer_mode |-> answer_mode, options |-> options,
     variants_per_blank |-> variants_per_blank, blank_tokens |-> blank_tokens]

UpperCase == "ABCDEFGHIJKLMNOPQRSTUVWXYZ"
LowerCase == "abcdefghijklmnopqrstuvwxyz"

RECURSIVE LowerChar(_, _)
LowerChar(c, k) ==
    IF k > Len(UpperCase) THEN c
    ELSE IF SubSeq(UpperCase, k, k) = c THEN SubSeq(LowerCase, k, k)
    ELSE LowerChar(c, k + 1)

\* str.lower()
RECURSIVE Lower(_)
Lower(s) == IF s = "" THEN s ELSE LowerChar(Head(s), 1) \o Lower(Tail(s))

validate_fitb(q, i) ==
    LET mode == Lower(IF q.answer_mode = Null \/ q.answer_mode = "" THEN "open_entry"
                      ELSE q.answer_mode)
        has_multi == Len(q.variants_per_blank) > 0
        options_lower == {Lower(Strip(q.options[k])) : k \in 1..Len(q.options)}
    IN IF mode \notin {"open_entry", "dropdown", "wordbank"}
         THEN <<Err(i, "FITB answer_mode must be open_entry, dropdown, or wordbank")>>
       ELSE IF has_multi
         THEN (IF Len(q.blank_tokens) > 0 /\ Len(q.blank_tokens) # Len(q.variants_per_blank)
                 THEN <<Err(i, "FITB multi-blank must have one token per blank")>> ELSE <<>>)
           \o (IF mode \in {"dropdown", "wordbank"}
                 THEN <<Err(i, "FITB multi-blank supports open_entry only")>> ELSE <<>>)
           \o SelectSeq([k \in 1..Len(q.variants_per_blank) |->
                           IF Len(q.variants_per_blank[k]) = 0
                             THEN Err(i, "FITB blank missing Accept/Answers")
                           ELSE Err(0, "")],
                        LAMBDA e : e.index # 0)
       ELSE IF mode \in {"dropdown", "wordbank"}
         THEN (IF Len(q.options) = 0
                 THEN <<Err(i, "FITB closed mode requires an Options list")>> ELSE <<>>)
           \o (IF Len(q.variants) = 0
                 THEN <<Err(i, "FITB closed mode requires Accept/Answers")>>
               ELSE IF options_lower # {}
                       /\ ~\E k \in 1..Len(q.variants) :
                             Lower(Strip(q.variants[k])) \in options_lower
                 THEN <<Err(i, "FITB correct answer must appear in options list")>>
               ELSE <<>>)
       ELSE IF Len(q.variants) = 0
         THEN <<Err(i, "FITB question missing Accept/Answers field")>>
       ELSE <<>>

\* _validate_numerical: the messages of NumericalAnswer.validate, prefixed.
validate_numerical(q, i) ==
    LET msgs == NumericalAnswer_validate(q.answer)
    IN [k \in 1..Len(msgs) |-> Err(i, msgs[k])]

\* The auto-fix inside _validate_question: an empty prompt is replaced by the
\* question's header when it has one (ORDERING).
HasHeader(q) == q.qtype = "ORDERING" /\ q.header # Null /\ q.header # ""

PromptFromHeader(q) ==
    IF ~IsStimulus(q) /\ IsBlank(q.prompt) /\ HasHeader(q)
      THEN [q EXCEPT !.prompt = q.header]
    ELSE q

\* _validate_question(question, index): the errors it returns.
validate_question(question, index) ==
    LET q == PromptFromHeader(question)
    IN (IF ~IsStimulus(q) /\ IsBlank(q.prompt)
          THEN <<Err(index, "Prompt cannot be empty")>> ELSE <<>>)
    \o (CASE q.qtype = "MC" -> validate_mc(q, index)
          [] q.qtype = "MA" -> validate_ma(q, index)
          [] q.qtype = "TF" -> validate_tf(q, index)
          [] q.qtype = "NUMERICAL" -> validate_numerical(q, index)
          [] q.qtype = "MATCHING" -> validate_matching(q, index)
          [] q.qtype = "FITB" -> validate_fitb(q, index)
          [] q.qtype = "ORDERING" -> validate_ordering(q, index)
          [] q.qtype = "CATEGORIZATION" -> validate_categorization(q, index)
          [] OTHER -> <<>>)

RECURSIVE Flatten(_)
Flatten(ss) == IF ss = <<>> THEN <<>> ELSE Head(ss) \o Flatten(Tail(ss))

\* validate_structure(quiz): the errors it returns ...
validate_structure(qs) ==
    IF Len(qs) = 0 THEN <<Err(0, "Quiz must contain at least one question")>>
    ELSE validate_render_mode(qs)
         \o Flatten([i \in 1..Len(qs) |-> validate_question(qs[i], i)])

\* ... and the questions it leaves behind (prompts taken from headers).
validate_structure_questions(qs) == [i \in 1..Len(qs) |-> PromptFromHeader(qs[i])]

----------------------------------------------------------------------------
(* Answer balancing: engine/validation/answer_balancer.py.  The random     *)
(* module's choices are nondeterministic: each operator yields the set of  *)
(* results the function can leave behind.                                  *)

\* random.shuffle(list): every arrangement of the list.
PermuteSeq(s) == {[i \in 1..Len(s) |-> s[p[i]]] : p \in Perms(Len(s))}

\* next((i for i, c in enumerate(choices) if c.correct), None), 1-based;
\* 0 stands for None.
FirstCorrect(choices) ==
    IF \E i \in 1..Len(choices) : choices[i].correct
      THEN CHOOSE i \in 1..Len(choices) :
             choices[i].correct /\ \A j \in 1..(i - 1) : ~choices[j].correct
    ELSE 0

\* Mutation of _shuffle_mc_to_position: the flags move, the choices stay.
shuffle_mc_to_position_flags_only(choices, current_correct, target_position) ==
    [i \in 1..Len(choices) |-> [text |-> choices[i].text, correct |-> (i = target_position)]]

\* _shuffle_mc_to_position(question, current_correct, target_position)
shuffle_mc_to_position(choices, current_correct, target_position) ==
    IF current_correct = target_position THEN choices
    ELSE [i \in 1..Len(choices) |->
            [text |-> (IF i = current_correct THEN choices[target_position].text
                       ELSE IF i = target_position THEN choices[current_correct].text
                       ELSE choices[i].text),
             correct |-> (i = target_position)]]

\* for q in mc_questions: random.shuffle(q.choices)
RECURSIVE ShuffleEach(_)
ShuffleEach(qs) ==
    IF qs = <<>> THEN {<<>>}
    ELSE {<<[Head(qs) EXCEPT !.choices = c]>> \o rest :
            c \in PermuteSeq(Head(qs).choices), rest \in ShuffleEach(Tail(qs))}

\* Mutation of MinOf: the count of the first position, not the least count.
MinOfFirstPosition(counts) == counts[1]

MinOf(counts) == CHOOSE m \in {counts[i] : i \in 1..Len(counts)} :
                    \A i \in 1..Len(counts) : m <= counts[i]

\* The first loop of _balance_mc_questions over the shuffled question order:
\* each question's correct choice moves to a random least-used position.
RECURSIVE AssignTargets(_, _, _, _)
AssignTargets(qs, order, idx, position_counts) ==
    IF idx > Len(order) THEN {qs}
    ELSE LET qi == order[idx]
             current_correct == FirstCorrect(qs[qi].choices)
         IN IF current_correct = 0
              THEN AssignTargets(qs, order, idx + 1, position_counts)
            ELSE LET min_count == MinOf(position_counts)
                     available_positions ==
                         {t \in 1..Len(position_counts) : position_counts[t] = min_count}
                 IN UNION {AssignTargets(
                             [qs EXCEPT ![qi].choices =
                                 shuffle_mc_to_position(@, current_correct, t)],
                             order, idx + 1,
                             [position_counts EXCEPT ![t] = @ + 1]) :
                           t \in available_positions}

\* The second pass of _balance_mc_questions: a question whose correct position
\* equals that of its two predecessors (in the shuffled order) swaps its whole
\* choices list with the first earlier question of a different position.
RECURSIVE AvoidStreaks(_, _, _, _)
AvoidStreaks(qs, order, correct_positions, idx) ==
    IF idx > Len(order) THEN qs
    ELSE LET a == correct_positions[idx]
             candidates == {j \in 1..(idx - 1) :
                              correct_positions[j] # 0 /\ correct_positions[j] # a}
         IN IF a # 0 /\ correct_positions[idx - 1] = a /\ correct_positions[idx - 2] = a
               /\ candidates # {}
              THEN LET swap_idx == CHOOSE j \in candidates : \A k \in candidates : j <= k
                   IN AvoidStreaks(
                        [qs EXCEPT ![order[idx]].choices = qs[order[swap_idx]].choices,
                                   ![order[swap_idx]].choices = qs[order[idx]].choices],
                        order,
                        [correct_positions EXCEPT ![idx] = correct_positions[swap_idx],
                                                  ![swap_idx] = a],
                        idx + 1)
            ELSE AvoidStreaks(qs, order, correct_positions, idx + 1)

\* _balance_mc_questions(mc_questions)
balance_mc_questions(mc_questions) ==
    IF mc_questions = <<>> THEN {mc_questions}
    ELSE UNION {
           LET num_positions == Len(shuffled[1].choices)
           IN IF \E k \in 1..Len(shuffled) : Len(shuffled[k].choices) # num_positions
                THEN {shuffled}
              ELSE UNION {
                     {AvoidStreaks(qs, order,
                                   [k \in 1..Len(order) |-> FirstCorrect(qs[order[k]].choices)],
                                   3) :
                        qs \in AssignTargets(shuffled, order, 1,
                                             [t \in 1..num_positions |-> 0])} :
                     order \in Perms(Len(shuffled))} :
           shuffled \in ShuffleEach(mc_questions)}

\* _balance_ma_questions(ma_questions): the shuffled correct choices land on
\* random positions and the shuffled incorrect ones fill the rest, which
\* reaches every arrangement of each question's choices.
balance_ma_questions(ma_questions) == ShuffleEach(ma_questions)

\* The loop of _balance_tf_questions over the shuffled question order.
RECURSIVE FlipAnswers(_, _, _, _, _)
FlipAnswers(qs, order, idx, need_to_flip_to_true, need_to_flip_to_false) ==
    IF idx > Len(order) THEN qs
    ELSE LET qi == order[idx]
         IN IF need_to_flip_to_true > 0 /\ ~qs[qi].answer_true
              THEN FlipAnswers([qs EXCEPT ![qi].answer_true = TRUE], order, idx + 1,
                               need_to_flip_to_true - 1, need_to_flip_to_false)
            ELSE IF need_to_flip_to_false > 0 /\ qs[qi].answer_true
              THEN FlipAnswers([qs EXCEPT ![qi].answer_true = FALSE], order, idx + 1,
                               need_to_flip_to_true, need_to_flip_to_false - 1)
            ELSE FlipAnswers(qs, order, idx + 1, need_to_flip_to_true, need_to_flip_to_false)

\* Mutation of balance_tf_questions: the target for True is the whole quiz.
balance_tf_questions_all_true(tf_questions) ==
    LET num_questions == Len(tf_questions)
        target_true == num_questions
        target_false == num_questions - target_true
        current_true == Cardinality({k \in 1..num_questions : tf_questions[k].answer_true})
        current_false == num_questions - current_true
        need_to_flip_to_true == IF target_true > current_true THEN target_true - current_true ELSE 0
        need_to_flip_to_false == IF target_false > current_false THEN target_false - current_false ELSE 0
    IN {FlipAnswers(tf_questions, order, 1, need_to_flip_to_true, need_to_flip_to_false) :
          order \in Perms(num_questions)}

\* _balance_tf_questions(tf_questions)
balance_tf_questions(tf_questions) ==
    LET num_questions == Len(tf_questions)
        target_true == num_questions \div 2
        target_false == num_questions - target_true
        current_true == Cardinality({k \in 1..num_questions : tf_questions[k].answer_true})
        current_false == num_questions - current_true
        need_to_flip_to_true == IF target_true > current_true THEN target_true - current_true ELSE 0
        need_to_flip_to_false == IF target_false > current_false THEN target_false - current_false ELSE 0
    IN {FlipAnswers(tf_questions, order, 1, need_to_flip_to_true, need_to_flip_to_false) :
          order \in Perms(num_questions)}

\* The questions of one class, in list order, and their places in the list.
IndicesOfType(qs, qtype) == SortedIndices({i \in 1..Len(qs) : qs[i].qtype = qtype})

OfType(qs, qtype) == [k \in 1..Len(IndicesOfType(qs, qtype)) |-> qs[IndicesOfType(qs, qtype)[k]]]

RankIn(idxs, i) == CHOOSE k \in 1..Len(idxs) : idxs[k] = i

\* balance_answers(questions): the lists it can leave behind.  The three
\* classes are balanced on the question objects in place; the list keeps
\* its order.
balance_answers(qs) ==
    {[i \in 1..Len(qs) |->
        CASE qs[i].qtype = "MC" -> mc[RankIn(IndicesOfType(qs, "MC"), i)]
          [] qs[i].qtype = "MA" -> ma[RankIn(IndicesOfType(qs, "MA"), i)]
          [] qs[i].qtype = "TF" -> tf[RankIn(IndicesOfType(qs, "TF"), i)]
          [] OTHER -> qs[i]] :
       mc \in balance_mc_questions(OfType(qs, "MC")),
       ma \in balance_ma_questions(OfType(qs, "MA")),
       tf \in balance_tf_questions(OfType(qs, "TF"))}

----------------------------------------------------------------------------
(* Fairness rules: engine/validation/rules/fairness_rules.py *)

META_ANSWERS ==
    {"No change is needed", "All of the above", "None of the above",
     "Both A and B", "Both A and C", "Both A and D", "Both B and C",
     "Both B and D", "Both C and D", "Neither is correct"}

\* _is_meta_answer(text)
is_meta_answer(text) == IF text = "" THEN FALSE ELSE Strip(text) \in META_ANSWERS

\* check_fairness(quiz): "currently none".
check_fairness(qs) == <<>>

\* Thresholds of check_length_bias.
MIN_MC_FOR_BIAS == 3
LENGTH_BIAS_PCT == 60

\* [c for c in question.choices if not _is_meta_answer(c.text)]
substantive_choices(choices) ==
    LET Substantive(c) == ~is_meta_answer(c.text)
    IN SelectSeq(choices, Substantive)

\* max(choices, key=lambda c: len(c.text)) and min(...): the first choice of
\* extreme length.
LongestChoice(choices) ==
    choices[CHOOSE i \in 1..Len(choices) :
              /\ \A j \in 1..Len(choices) : Len(choices[j].text) <= Len(choices[i].text)
              /\ \A j \in 1..(i - 1) : Len(choices[j].text) < Len(choices[i].text)]

ShortestChoice(choices) ==
    choices[CHOOSE i \in 1..Len(choices) :
              /\ \A j \in 1..Len(choices) : Len(choices[j].text) >= Len(choices[i].text)
              /\ \A j \in 1..(i - 1) : Len(choices[j].text) > Len(choices[i].text)]

\* The MC questions check_length_bias evaluates: non-empty choices with at
\* least two substantive ones.
EvaluatedForBias(mc_questions) ==
    {k \in 1..Len(mc_questions) :
       /\ mc_questions[k].choices # <<>>
       /\ Len(substantive_choices(mc_questions[k].choices)) >= 2}

\* check_length_bias(quiz): the error messages it returns.  The float
\* comparison (count / total) * 100 >= 60 is taken over the integers.
check_length_bias(qs) ==
    LET mc_questions == OfType(qs, "MC")
        evaluated == EvaluatedForBias(mc_questions)
        total == Cardinality(evaluated)
        longest_correct_count ==
            Cardinality({k \in evaluated :
                           LongestChoice(substantive_choices(mc_questions[k].choices)).correct})
        shortest_correct_count ==
            Cardinality({k \in evaluated :
                           ShortestChoice(substantive_choices(mc_questions[k].choices)).correct})
    IN IF Len(mc_questions) < MIN_MC_FOR_BIAS THEN <<>>
       ELSE IF total = 0 THEN <<>>
       ELSE (IF longest_correct_count * 100 >= LENGTH_BIAS_PCT * total
               THEN <<Err(0, "Longest answer is correct")>> ELSE <<>>)
            \o (IF shortest_correct_count * 100 >= LENGTH_BIAS_PCT * total
                  THEN <<Err(0, "Shortest answer is correct")>> ELSE <<>>)

----------------------------------------------------------------------------
(* Auto-fixers: engine/validation/fixers and engine/utils/text_utils.py *)

\* The strings of the model are ASCII.  Of the characters sanitize_text
\* replaces, the model's texts use two, written with ASCII stand-ins: "~"
\* for the em dash U+2014 and "^" for the ellipsis U+2026.
SanitizeChar(c) ==
    CASE c = "~" -> "-"
      [] c = "^" -> "..."
      [] OTHER -> c

\* sanitize_text(value)
RECURSIVE sanitize_text(_)
sanitize_text(value) ==
    IF value = "" THEN value
    ELSE SanitizeChar(SubSeq(value, 1, 1)) \o sanitize_text(Tail(value))

\* TextCleaner.clean(quiz): every prompt is sanitized.
TextCleaner_clean(qs) ==
    [i \in 1..Len(qs) |-> [qs[i] EXCEPT !.prompt = sanitize_text(@)]]

\* round(n / d) for n >= 0, d > 0: Python rounds halves to the even integer.
RoundHalfEven(n, d) ==
    LET q == n \div d
        r == n % d
    IN IF 2 * r < d THEN q
       ELSE IF 2 * r > d THEN q + 1
       ELSE IF q % 2 = 0 THEN q ELSE q + 1

\* The default target_total of PointNormalizer.normalize.
NORMALIZE_TARGET == 100

\* PointNormalizer.normalize(quiz)
PointNormalizer_normalize(qs) ==
    LET scorable == ScorableIndices(qs)
        to_normalize == {i \in scorable : ~qs[i].points_set}
        explicit_total ==
            SumSeq([i \in 1..Len(qs) |->
                      IF i \in scorable /\ qs[i].points_set THEN qs[i].points ELSE 0])
        remaining == IF NORMALIZE_TARGET - explicit_total <= 0 THEN NORMALIZE_TARGET
                     ELSE NORMALIZE_TARGET - explicit_total
        points_each == RoundHalfEven(remaining, Cardinality(to_normalize))
        rounded == [i \in 1..Len(qs) |->
                      IF i \in to_normalize THEN [qs[i] EXCEPT !.points = points_each]
                      ELSE qs[i]]
        actual_total ==
            SumSeq([i \in 1..Len(qs) |-> IF i \in scorable THEN rounded[i].points ELSE 0])
        diff == NORMALIZE_TARGET - actual_total
        first == CHOOSE i \in to_normalize : \A j \in to_normalize : i <= j
    IN IF to_normalize = {} THEN qs
       ELSE IF diff # 0 THEN [rounded EXCEPT ![first].points = @ + diff]
       ELSE rounded

\* AutoFixer.fix_all(quiz): the question lists it can leave behind.  The
\* bounds calculator between the cleaner and the normalizer only writes log
\* messages.
fix_all(qs) == balance_answers(PointNormalizer_normalize(TextCleaner_clean(qs)))

----------------------------------------------------------------------------
(* Validation: engine/validation/validator.py *)

ValidationResult(st, qs, errs, warns) ==
    [status |-> st, quiz |-> qs, errors |-> errs, warnings |-> warns]

\* Mutation of validate: structure errors no longer stop the validation.
validate_ignoring_structure(qs) ==
    {ValidationResult(IF check_fairness(fixed) # <<>> THEN "WEAK_PASS" ELSE "PASS",
                      fixed, <<>>, check_fairness(fixed)) :
       fixed \in fix_all(validate_structure_questions(qs))}

\* QuizValidator.validate(quiz): the results it can return.
validate(qs) ==
    LET structure_errors == validate_structure(qs)
        checked == validate_structure_questions(qs)
    IN IF structure_errors # <<>>
         THEN {ValidationResult("FAIL", checked, structure_errors, <<>>)}
       ELSE {ValidationResult(IF check_fairness(fixed) # <<>> THEN "WEAK_PASS" ELSE "PASS",
                              fixed, <<>>, check_fairness(fixed)) :
               fixed \in fix_all(checked)}

----------------------------------------------------------------------------
(* JSON import: engine/importers.py with the newspec parser and packager   *)
(* (dev/newspec_engine).  A payload is the list of its items; an item is a *)
(* record whose domain is the set of keys present in the JSON object.      *)

\* JSON scalars: a number carries the decimal its text denotes.
JNum(c, e) == [kind |-> "number", value |-> Dec(c, e)]
JStr(s) == [kind |-> "string", text |-> s]
JBool(b) == [kind |-> "bool", value |-> b]
JNull == [kind |-> "null"]

\* The empty JSON object: no key is present.
EmptyDict == <<>>

\* dict.get(key, default)
GetKey(item, key, default) == IF key \in DOMAIN item THEN item[key] ELSE default

With(item, key, val) == [k \in DOMAIN item \cup {key} |-> IF k = key THEN val ELSE item[k]]
Without(item, key) == [k \in DOMAIN item \ {key} |-> item[k]]

SUPPORTED_TYPES ==
    {"STIMULUS", "STIMULUS_END", "MC", "MA", "TF", "MATCHING", "FITB", "ESSAY",
     "FILEUPLOAD", "ORDERING", "CATEGORIZATION", "NUMERICAL"}

\* _sanitize_item(item) for an item of a supported type: stimulus items lose
\* their points and a non-exact numerical item is flagged.  (The metadata
\* defaults it also fills in are never read again.)
sanitize_item(item) ==
    LET unscored == IF item.type \in {"STIMULUS", "STIMULUS_END"} /\ "points" \in DOMAIN item
                      THEN Without(item, "points") ELSE item
    IN IF unscored.type = "NUMERICAL"
          /\ GetKey(GetKey(unscored, "evaluation", EmptyDict), "mode", "exact") # "exact"
         THEN With(unscored, "experimental_flags", <<"numerical_non_exact_mode">>)
       ELSE unscored

\* isinstance(item, dict): the JSON scalars of the model carry their kind,
\* an object carries its keys.
IsDict(item) == "kind" \notin DOMAIN item

\* parse_news_json(text) followed by the newspec package_quiz: the sanitized
\* items, or the ValueError for an empty list or an unsupported type.  Items
\* that are not objects are left out without an error.
parse_news_json(items) ==
    LET sanitized(dicts) ==
          IF \E i \in 1..Len(dicts) : dicts[i].type \notin SUPPORTED_TYPES
            THEN Raised("ValueError")
          ELSE [raised |-> Null, items |-> [i \in 1..Len(dicts) |-> sanitize_item(dicts[i])]]
    IN IF items = <<>> THEN Raised("ValueError")
       ELSE sanitized(SelectSeq(items, IsDict))

\* _safe_decimal(value)
safe_decimal(value) ==
    CASE value.kind = "number" -> Some(value.value)
      [] value.kind = "null" -> None
      [] OTHER -> None

\* int(value) of a JSON number: truncation towards zero.
IntOf(d) ==
    IF d.e >= 0 THEN d.c * Pow10(d.e)
    ELSE IF d.c >= 0 THEN d.c \div Pow10(-d.e) ELSE -((-d.c) \div Pow10(-d.e))

\* _bounds_for_numerical(answer, mode, margin, range_min, range_max, precision)
bounds_for_numerical(answer, mode, margin, range_min, range_max, precision) ==
    LET resolved == resolve_numerical_bounds(answer, mode, margin, range_min, range_max, precision)
        fallback == IF answer = None THEN Dec(0, 0) ELSE Get(answer)
    IN IF resolved.raised # Null THEN Bounds(fallback, fallback, FALSE) ELSE resolved

\* _convert_numerical(item, pts, pts_set, ...)
convert_numerical(item, pts, pts_set) ==
    LET evaluation == GetKey(item, "evaluation", EmptyDict)
        mode == GetKey(evaluation, "mode", "exact")
        answer == safe_decimal(GetKey(item, "answer", JNull))
        margin == IF "value" \in DOMAIN evaluation THEN safe_decimal(evaluation.value) ELSE None
        range_min == IF "min" \in DOMAIN evaluation THEN safe_decimal(evaluation.min) ELSE None
        range_max == IF "max" \in DOMAIN evaluation THEN safe_decimal(evaluation.max) ELSE None
        precision ==
            IF "value" \in DOMAIN evaluation /\ mode \in {"significant_digits", "decimal_places"}
               /\ evaluation.value.kind = "number"
              THEN Some(IntOf(evaluation.value.value)) ELSE None
        b == bounds_for_numerical(answer, mode, margin, range_min, range_max, precision)
    IN [NumericalQuestion(GetKey(item, "prompt", ""),
                          NumericalAnswer(answer, mode, margin, range_min, range_max, precision,
                                          Some(b.lower), Some(b.upper), b.strict_lower))
          EXCEPT !.points = pts, !.points_set = pts_set]

\* _parse_tf_answer(value)
parse_tf_answer(value) ==
    CASE value.kind = "bool" -> value.value
      [] value.kind = "string" ->
           IF Lower(Strip(value.text)) \in {"true", "t", "1", "yes"} THEN TRUE
           ELSE IF Lower(Strip(value.text)) \in {"false", "f", "0", "no"} THEN FALSE
           ELSE value.text # ""
      [] value.kind = "number" -> value.value.c # 0
      [] OTHER -> FALSE

\* The body of the loop of _packaged_to_domain for one item.  StimulusItem
\* is constructed with a keyword its dataclass does not declare, which
\* raises TypeError: the caller treats that separately.
item_to_question(item) ==
    LET prompt == GetKey(item, "prompt", "")
        pts == GetKey(item, "points", 0)
        pts_set == "points" \in DOMAIN item
        scored(q) == [q EXCEPT !.points = pts, !.points_set = pts_set]
        choices == LET cs == GetKey(item, "choices", <<>>)
                   IN [k \in 1..Len(cs) |-> MCChoice(cs[k].text, GetKey(cs[k], "correct", FALSE))]
    IN CASE item.type = "STIMULUS_END" -> StimulusEnd(prompt)
         [] item.type = "MC" -> scored(MCQuestion(prompt, choices))
         [] item.type = "MA" -> scored(MAQuestion(prompt, choices))
         [] item.type = "TF" ->
              scored(TFQuestion(prompt, parse_tf_answer(GetKey(item, "answer", JNull))))
         [] item.type = "NUMERICAL" -> convert_numerical(item, pts, pts_set)
         \* ESSAY and FILEUPLOAD, the other types the payloads hold
         [] item.type \in {"ESSAY", "FILEUPLOAD"} -> scored(Question(item.type, prompt))

\* parent_stimulus_ident and forced_ident of the question built from an
\* item: parent_stimulus = stim_id or current_stimulus_id, where
\* current_stimulus_id is still None at every question the loop reaches (a
\* STIMULUS item raises before it is set).  StimulusEnd keeps the defaults.
attach_idents(q, item) ==
    IF item.type = "STIMULUS_END"
      THEN With(With(q, "parent_stimulus_ident", Null), "forced_ident", Null)
      ELSE With(With(q, "parent_stimulus_ident", GetKey(item, "stimulus_id", Null)),
                "forced_ident", GetKey(item, "id", Null))

\* _packaged_to_domain(packaged): the questions, or the TypeError.
packaged_to_domain(items) ==
    IF \E i \in 1..Len(items) : items[i].type = "STIMULUS" THEN Raised("TypeError")
    ELSE [raised |-> Null,
          questions |-> [i \in 1..Len(items) |->
                           attach_idents(item_to_question(items[i]), items[i])]]

\* import_quiz_from_llm(raw_output) in JSON mode.
import_quiz_from_llm(items) ==
    LET payload == parse_news_json(items)
    IN IF payload.raised # Null THEN Raised("JsonImportError")
       ELSE packaged_to_domain(payload.items)

----------------------------------------------------------------------------
(* SpecStructure: validate_structure applied to small quizzes              *)

Prompts == {"", " ", "Q"}

ChoiceLists == {[k \in DOMAIN fl |-> MCChoice("c", fl[k])] : fl \in SeqsUpTo(BOOLEAN, MaxChoices)}
PairLists == {[k \in 1..n |-> MatchingPair("l", "r")] : n \in 0..MaxEntries}
ItemLists == {[k \in 1..n |-> "i"] : n \in 0..MaxEntries}
CategoryLists == {[k \in 1..n |-> "cat"] : n \in 0..MaxEntries}
MappingLists == {[k \in 1..n |-> CategoryMapping("i", "cat")] : n \in 0..MaxEntries}

ValidNumericalAnswer ==
    NumericalAnswer(Some(Dec(5, 0)), "exact", None, None, None, None,
                    Some(Dec(5, 0)), Some(Dec(5, 0)), FALSE)

\* Closed-choice FITB questions: the answer modes as an author writes them,
\* accept lists and options lists that hold all, some or none of them.
ClosedModes == {"dropdown", "wordbank", "Dropdown"}

FITBVariants == {<<>>, <<"x">>, <<"x", "y">>, <<"X ">>}

FITBOptions == {<<>>, <<"x">>, <<"z">>, <<"x", "z">>, <<"y", "x">>}

StructQuestions ==
    {MCQuestion(p, cs) : p \in Prompts, cs \in ChoiceLists}
    \cup {MAQuestion(p, cs) : p \in Prompts, cs \in ChoiceLists}
    \cup {MatchingQuestion(p, ps) : p \in Prompts, ps \in PairLists}
    \cup {OrderingQuestion(p, it, h) : p \in Prompts, it \in ItemLists, h \in {Null, "H"}}
    \cup {CategorizationQuestion(p, cs, ms) :
            p \in Prompts, cs \in CategoryLists, ms \in MappingLists}
    \cup {TFQuestion(p, TRUE) : p \in Prompts}
    \cup {Question("ESSAY", p) : p \in Prompts}
    \cup {StimulusItem(p) : p \in Prompts}
    \cup {NumericalQuestion(p, ValidNumericalAnswer) : p \in Prompts}
    \cup {FITBQuestion(p, v, "open_entry", <<>>, <<>>, <<>>) :
            p \in Prompts, v \in {<<>>, <<"x">>}}
    \cup {FITBQuestion("Q", v, m, o, <<>>, <<>>) :
            v \in FITBVariants, m \in ClosedModes, o \in FITBOptions}

InitStructure ==
    /\ pc = "structure_start"
    /\ questions \in {<<>>} \cup {<<q>> : q \in StructQuestions}
                     \cup {<<TFQuestion("T", TRUE), q>> : q \in StructQuestions}
    /\ input = questions
    /\ errors = <<>>
    /\ total_points = Unused
    /\ bounds = Unused
    /\ NoRun

DoValidateStructure ==
    /\ pc = "structure_start"
    /\ errors' = validate_structure(questions)
    /\ questions' = validate_structure_questions(questions)
    /\ pc' = "structure_done"
    /\ UNCHANGED <<total_points, input, bounds, runVars>>

NextStructure == DoValidateStructure

SpecStructure == InitStructure /\ [][NextStructure]_vars

----------------------------------------------------------------------------
(* C7: validate_structure reports no error for a question with a non-blank *)
(* prompt exactly when its variant's cardinality rule holds: MC has 2 to 7 *)
(* choices with exactly one marked correct; MA has at least 2 choices with *)
(* at least one correct; Matching has at least 2 pairs; Ordering has at    *)
(* least 2 items; Categorization has at least 2 categories and at least 1  *)
(* item mapping.                                                           *)

NumCorrect(q) == Cardinality({k \in 1..Len(q.choices) : q.choices[k].correct})

CardinalityRule(q) ==
    CASE q.qtype = "MC" -> Len(q.choices) >= 2 /\ Len(q.choices) <= 7 /\ NumCorrect(q) = 1
      [] q.qtype = "MA" -> Len(q.choices) >= 2 /\ NumCorrect(q) >= 1
      [] q.qtype = "MATCHING" -> Len(q.pairs) >= 2
      [] q.qtype = "ORDERING" -> Len(q.items) >= 2
      [] q.qtype = "CATEGORIZATION" -> Len(q.categories) >= 2 /\ Len(q.items) >= 1

NoErrorFor(i) == \A k \in 1..Len(errors) : errors[k].index # i

----------------------------------------------------------------------------
(* SpecBounds: _resolve_numerical_bounds applied to the settings the text  *)
(* parser hands it (_parse_block, NUMERICAL branch).  The parser passes    *)
(* abs(value) as margin, a non-negative precision and a range with         *)
(* min < max; an Answer: line may be missing.                              *)

AnswerExponents == {-400, -1, 0, 1}
Answers == {Dec(c, e) : c \in (-MaxCoeff)..MaxCoeff, e \in AnswerExponents}
Margins == {Dec(c, e) : c \in 0..MaxMargin, e \in {-1, 0}}
RangeEnds == {Dec(c, 0) : c \in -2..2}

NumericalInput(answer, mode, margin, range_min, range_max, precision) ==
    [answer |-> answer, mode |-> mode, margin |-> margin, range_min |-> range_min,
     range_max |-> range_max, precision |-> precision]

OptionalAnswers == {None} \cup {Some(a) : a \in Answers}

ParsedNumericalInputs ==
    {NumericalInput(a, "exact", None, None, None, None) : a \in OptionalAnswers}
    \cup {NumericalInput(a, mode, Some(m), None, None, None) :
            a \in OptionalAnswers, mode \in {"percent_margin", "absolute_margin"},
            m \in Margins}
    \cup {NumericalInput(a, "range", None, Some(r[1]), Some(r[2]), None) :
            a \in {None, Some(Dec(1, 0))},
            r \in {x \in RangeEnds \X RangeEnds : x[1].c < x[2].c}}
    \cup {NumericalInput(a, mode, None, None, None, Some(p)) :
            a \in OptionalAnswers, mode \in {"significant_digits", "decimal_places"},
            p \in 0..MaxPrecision}

\* The offset the tolerance setting stands for, in exact arithmetic.
IdealOffset(in) ==
    LET a == Get(in.answer)
    IN CASE in.mode = "percent_margin" ->
              DecMul(DecAbs(a), Dec(Get(in.margin).c, Get(in.margin).e - 2))
         [] in.mode = "absolute_margin" -> DecAbs(Get(in.margin))
         [] in.mode = "decimal_places" -> Dec(5, -1 - Get(in.precision))
         [] in.mode = "significant_digits" ->
              Dec(5, -1 + (Adjusted(a) - Get(in.precision) + 1))
         [] OTHER -> Dec(0, 0)

\* The answer and the offset fit the context precision together, so that
\* answer - offset and answer + offset are computed without rounding.
WithinContextPrecision(in) ==
    \/ in.answer = None
    \/ in.mode \in {"exact", "range"}
    \/ LET a == Get(in.answer)
           off == IdealOffset(in)
           m == IF a.e < off.e THEN a.e ELSE off.e
       IN a.c = 0 \/ off.c = 0
          \/ (Adjusted(a) - m < DECIMAL_PREC /\ Adjusted(off) - m < DECIMAL_PREC)

InitBounds ==
    /\ pc = "bounds_start"
    /\ input \in {in \in ParsedNumericalInputs : WithinContextPrecision(in)}
    /\ bounds = Unused
    /\ questions = Unused
    /\ total_points = Unused
    /\ errors = Unused
    /\ NoRun

DoResolveBounds ==
    /\ pc = "bounds_start"
    /\ bounds' = resolve_numerical_bounds(input.answer, input.mode, input.margin,
                                          input.range_min, input.range_max,
                                          input.precision)
    /\ pc' = "bounds_done"
    /\ UNCHANGED <<questions, total_points, input, errors, runVars>>

NextBounds == DoResolveBounds

SpecBounds == InitBounds /\ [][NextBounds]_vars

----------------------------------------------------------------------------
(* C9: for every answer a and tolerance specification whose required       *)
(* fields are present, _resolve_numerical_bounds returns (lower, upper,    *)
(* strict_lower) equal to: exact -> (a, a, false); percent_margin m ->     *)
(* (a - |a|*m/100, a + |a|*m/100, false); absolute_margin m -> (a - |m|,   *)
(* a + |m|, false); range -> (min, max, false); decimal_places p ->        *)
(* (a - 0.5*10^(-p), a + 0.5*10^(-p), true); significant_digits n with     *)
(* a # 0 -> (a - 0.5*10^(floor(log10|a|) - n + 1), a + the same, true).    *)

RequiredFieldsPresent(in) ==
    CASE in.mode = "range" -> in.range_min # None /\ in.range_max # None
      [] in.mode \in {"percent_margin", "absolute_margin"} ->
           in.answer # None /\ in.margin # None
      [] in.mode \in {"significant_digits", "decimal_places"} ->
           in.answer # None /\ in.precision # None
      [] OTHER -> in.answer # None

\* a - off and a + off in exact arithmetic.
ExactSum(a, off) ==
    LET m == IF a.e < off.e THEN a.e ELSE off.e
        term(x) == IF x.c = 0 THEN 0 ELSE x.c * Pow10(x.e - m)
    IN DecNorm(Dec(term(a) + term(off), m))

ClaimedBounds(in) ==
    IF in.mode = "range" THEN Bounds(DecNorm(Get(in.range_min)), DecNorm(Get(in.range_max)), FALSE)
    ELSE IF in.mode = "exact" THEN Bounds(DecNorm(Get(in.answer)), DecNorm(Get(in.answer)), FALSE)
    ELSE Bounds(ExactSum(Get(in.answer), DecNeg(IdealOffset(in))),
                ExactSum(Get(in.answer), IdealOffset(in)),
                in.mode \in {"significant_digits", "decimal_places"})

C9_BoundsMatchFormulas ==
    (/\ pc = "bounds_done"
     /\ RequiredFieldsPresent(input)
     /\ ~(input.mode = "significant_digits" /\ Get(input.answer).c = 0))
    => /\ bounds.raised = Null
       /\ DecNorm(bounds.lower) = ClaimedBounds(input).lower
       /\ DecNorm(bounds.upper) = ClaimedBounds(input).upper
       /\ bounds.strict_lower = ClaimedBounds(input).strict_lower

----------------------------------------------------------------------------
(* JSON payloads tried by the validation and pipeline specifications *)

MaxQuiz == 3           \* longest JSON item list

MC_LONG_CORRECT ==
    [type |-> "MC", prompt |-> "Q",
     choices |-> <<[text |-> "aa", correct |-> TRUE], [text |-> "a"]>>]
MC_META_CORRECT ==
    [type |-> "MC", prompt |-> "Q",
     choices |-> <<[text |-> "All of the above", correct |-> TRUE], [text |-> "a"]>>]
MC_NONE_CORRECT ==
    [type |-> "MC", prompt |-> "Q", choices |-> <<[text |-> "aa"], [text |-> "a"]>>]
TF_YES == [type |-> "TF", prompt |-> "Q", answer |-> JStr("Yes")]
NUM_EXACT == [type |-> "NUMERICAL", prompt |-> "Q", answer |-> JNum(5, 0)]
NUM_RANGE_INVERTED ==
    [type |-> "NUMERICAL", prompt |-> "Q", answer |-> JNum(1, 0),
     evaluation |-> [mode |-> "range", min |-> JNum(2, 0), max |-> JNum(1, 0)]]
ESSAY_EMPTY == [type |-> "ESSAY", prompt |-> ""]
ESSAY_DASH == [type |-> "ESSAY", prompt |-> "a~b", points |-> 7]
STIMULUS_END_ITEM == [type |-> "STIMULUS_END", prompt |-> "", points |-> 3]
STIMULUS_ITEM == [type |-> "STIMULUS", prompt |-> "P"]

ItemPool ==
    {MC_LONG_CORRECT, MC_META_CORRECT, MC_NONE_CORRECT, TF_YES, NUM_EXACT,
     NUM_RANGE_INVERTED, ESSAY_EMPTY, ESSAY_DASH, STIMULUS_END_ITEM, STIMULUS_ITEM}

Payloads == SeqsUpTo(ItemPool, MaxQuiz)

ImportedQuizzes ==
    {import_quiz_from_llm(items).questions :
       items \in {p \in Payloads : import_quiz_from_llm(p).raised = Null}}

----------------------------------------------------------------------------
(* SpecValidate: QuizValidator.validate applied to imported quizzes *)

InitValidate ==
    /\ pc = "validate_start"
    /\ questions \in ImportedQuizzes
    /\ input = questions
    /\ errors = <<>>
    /\ status = Null
    /\ warnings = <<>>
    /\ entry = "QuizValidator.validate"
    /\ total_points = Unused /\ bounds = Unused /\ calls = Unused /\ xml = Unused
    /\ zip = Unused /\ raised = Unused /\ physical = Unused /\ fail_prompt = Unused

DoValidate ==
    /\ pc = "validate_start"
    /\ \E r \in validate(questions) :
         /\ questions' = r.quiz
         /\ status' = r.status
         /\ errors' = r.errors
         /\ warnings' = r.warnings
    /\ pc' = "validate_done"
    /\ UNCHANGED <<total_points, input, bounds, entry, calls, xml, zip, raised,
                   physical, fail_prompt>>

NextValidate == DoValidate

SpecValidate == InitValidate /\ [][NextValidate]_vars

----------------------------------------------------------------------------
(* C5: QuizValidator.validate returns FAIL exactly when structural         *)
(* validation reports at least one error; otherwise it returns WEAK_PASS   *)
(* exactly when the fairness check yields at least one warning, and PASS   *)
(* exactly when there are no structural errors and no fairness warnings.   *)

StructureFails == validate_structure(input) # <<>>

FairnessWarns == check_fairness(questions) # <<>>

C5_StatusMatchesFindings ==
    pc = "validate_done" =>
        /\ (status = "FAIL") <=> StructureFails
        /\ (status = "WEAK_PASS") <=> (~StructureFails /\ FairnessWarns)
        /\ (status = "PASS") <=> (~StructureFails /\ ~FairnessWarns)

\* A quiz of two questions of which one breaks a structure rule is failed
\* with the structural errors.
C5_Witness ==
    /\ pc = "validate_done"
    /\ Len(input) = 2
    /\ status = "FAIL"
    /\ StructureFails
    /\ errors = validate_structure(input)

----------------------------------------------------------------------------
(* C8: for a quiz with at least three MC questions, if among the MC        *)
(* questions that keep at least two choices after excluding standardized   *)
(* meta-answers the longest such choice is the correct one in at least 60% *)
(* of them (or the shortest is), then validating the quiz emits a          *)
(* quiz-level length-bias error, so the result is not a clean PASS.        *)

LengthBiased == check_length_bias(input) # <<>>

Reported(messages) ==
    \A k \in 1..Len(messages) :
        \E j \in 1..Len(errors \o warnings) : (errors \o warnings)[j] = messages[k]

C8_LengthBiasIsReported ==
    (pc = "validate_done" /\ LengthBiased) =>
        (status # "PASS" /\ Reported(check_length_bias(input)))

----------------------------------------------------------------------------
(* Text conversions of the Canvas renderer:                                *)
(* engine/rendering/canvas/html_formatter.py and qti_roundtrip.py          *)

\* Whether s starts with the prefix p.
StartsWith(s, p) == Len(s) >= Len(p) /\ SubSeq(s, 1, Len(p)) = p

\* s without its first n characters.
Drop(s, n) == SubSeq(s, n + 1, Len(s))

\* 1-based position of the first occurrence of the character c in s, 0 when
\* there is none.
IndexOf(s, c) ==
    LET hits == {i \in 1..Len(s) : SubSeq(s, i, i) = c}
    IN IF hits = {} THEN 0 ELSE CHOOSE i \in hits : \A j \in hits : i <= j

FirstGt(s) == IndexOf(s, ">")

\* xml.sax.saxutils.escape(value), and the escaping ElementTree applies to
\* element text when it serializes a tree.
RECURSIVE xml_escape(_)
xml_escape(value) ==
    IF value = "" THEN ""
    ELSE (CASE Head(value) = "&" -> "&amp;"
            [] Head(value) = "<" -> "&lt;"
            [] Head(value) = ">" -> "&gt;"
            [] OTHER -> SubSeq(value, 1, 1))
         \o xml_escape(Tail(value))

\* The character data an XML parser hands back for serialized element text:
\* the predefined entities are resolved.
RECURSIVE xml_parse_text(_)
xml_parse_text(cdata) ==
    IF cdata = "" THEN ""
    ELSE IF StartsWith(cdata, "&amp;") THEN "&" \o xml_parse_text(Drop(cdata, 5))
    ELSE IF StartsWith(cdata, "&lt;") THEN "<" \o xml_parse_text(Drop(cdata, 4))
    ELSE IF StartsWith(cdata, "&gt;") THEN ">" \o xml_parse_text(Drop(cdata, 4))
    ELSE SubSeq(cdata, 1, 1) \o xml_parse_text(Tail(cdata))

\* html.unescape(value) on the references &amp; &lt; &gt;, which HTML also
\* resolves when the semicolon is missing.  The texts of the model spell no
\* other character reference.
RECURSIVE html_unescape(_)
html_unescape(value) ==
    LET k == IndexOf(value, "&")
        before == SubSeq(value, 1, k - 1)
        rest == Drop(value, k - 1)
    IN IF k = 0 THEN value
       ELSE IF StartsWith(rest, "&amp;") THEN before \o "&" \o html_unescape(Drop(rest, 5))
       ELSE IF StartsWith(rest, "&amp") THEN before \o "&" \o html_unescape(Drop(rest, 4))
       ELSE IF StartsWith(rest, "&lt;") THEN before \o "<" \o html_unescape(Drop(rest, 4))
       ELSE IF StartsWith(rest, "&lt") THEN before \o "<" \o html_unescape(Drop(rest, 3))
       ELSE IF StartsWith(rest, "&gt;") THEN before \o ">" \o html_unescape(Drop(rest, 4))
       ELSE IF StartsWith(rest, "&gt") THEN before \o ">" \o html_unescape(Drop(rest, 3))
       ELSE before \o "&" \o html_unescape(Drop(rest, 1))

\* _TAG_RE.sub("", value) for _TAG_RE = <[^>]+> : a "<" together with
\* everything up to the next ">" is dropped when at least one character
\* lies between them.
RECURSIVE strip_tags(_)
strip_tags(value) ==
    LET k == IndexOf(value, "<")
        before == SubSeq(value, 1, k - 1)
        after == Drop(value, k)
    IN IF k = 0 THEN value
       ELSE IF FirstGt(after) >= 2 THEN before \o strip_tags(Drop(after, FirstGt(after)))
       ELSE before \o "<" \o strip_tags(after)

\* _html_to_visible_text(value)
html_to_visible_text(value) == strip_tags(html_unescape(value))

\* \w: a letter, a digit or the underscore.
IsWordChar(c) ==
    \/ \E k \in 1..26 : SubSeq(LowerCase, k, k) = c \/ SubSeq(UpperCase, k, k) = c
    \/ \E k \in 1..11 : SubSeq("0123456789_", k, k) = c

\* re.search(r"<\w+[^>]*>", text)
RECURSIVE has_html_tag(_)
has_html_tag(text) ==
    IF Len(text) < 3 THEN FALSE
    ELSE \/ /\ Head(text) = "<"
            /\ IsWordChar(SubSeq(text, 2, 2))
            /\ FirstGt(Drop(text, 2)) > 0
         \/ has_html_tag(Tail(text))

----------------------------------------------------------------------------
(* HTML formatting of student-visible text: html_formatter.py.  The texts  *)
(* of the model are single lines without backslashes, backticks, "#" or    *)
(* quotation marks, so the escape cleaning, code and heading rules of the  *)
(* formatter leave them alone.                                             *)

EXCERPT_OPEN == "<div style=\"margin:10px 0;\"><div style=\"font-family: inherit; font-size:0.95em; padding:14px 18px; background:#fff; border:1px solid #d9d9d9; border-left:5px solid #4b79ff; line-height:1.6; white-space:pre-wrap;\">"
EXCERPT_CLOSE == "</div></div>"

\* render_excerpt_block(content) inside htmlize_prompt when excerpt numbering
\* is off: the content is escaped into the excerpt box.
render_excerpt_block(content) == EXCERPT_OPEN \o xml_escape(content) \o EXCERPT_CLOSE

\* mode = (render_mode or "verbatim").lower(); a value that is no string
\* counts as verbatim.
effective_mode(render_mode) ==
    IF render_mode = Null \/ render_mode = "" THEN "verbatim" ELSE Lower(render_mode)

\* The model writes the backtick as an apostrophe.
BACKTICK == "'"

\* A text under cleaning: its characters, and the code regions already
\* protected (each stands for the placeholder the code puts in its place).
PlainChar(c) == [protected |-> FALSE, text |-> c]

ProtectedRegion(s) == [protected |-> TRUE, text |-> s]

CharsOf(s) == [i \in 1..Len(s) |-> PlainChar(SubSeq(s, i, i))]

RECURSIVE TextOf(_)
TextOf(toks) == IF toks = <<>> THEN "" ELSE Head(toks).text \o TextOf(Tail(toks))

IsTick(toks, i) == i <= Len(toks) /\ ~toks[i].protected /\ toks[i].text = BACKTICK

IsFence(toks, i) == IsTick(toks, i) /\ IsTick(toks, i + 1) /\ IsTick(toks, i + 2)

LeastOf(S) == CHOOSE j \in S : \A k \in S : j <= k

\* re.sub(r'```[\s\S]*?```', protect_region, text)
RECURSIVE protect_fenced(_)
protect_fenced(toks) ==
    LET upto(closes) ==
          IF IsFence(toks, 1) /\ closes # {}
            THEN <<ProtectedRegion(TextOf(SubSeq(toks, 1, LeastOf(closes) + 2)))>>
                   \o protect_fenced(SubSeq(toks, LeastOf(closes) + 3, Len(toks)))
          ELSE <<Head(toks)>> \o protect_fenced(Tail(toks))
    IN IF toks = <<>> THEN <<>>
       ELSE upto({j \in 4..Len(toks) : IsFence(toks, j)})

\* re.sub(r'`[^`]+`', protect_region, text)
RECURSIVE protect_inline(_)
protect_inline(toks) ==
    LET upto(later) ==
          IF IsTick(toks, 1) /\ later # {} /\ ~IsTick(toks, 2)
            THEN <<ProtectedRegion(TextOf(SubSeq(toks, 1, LeastOf(later))))>>
                   \o protect_inline(SubSeq(toks, LeastOf(later) + 1, Len(toks)))
          ELSE <<Head(toks)>> \o protect_inline(Tail(toks))
    IN IF toks = <<>> THEN <<>>
       ELSE upto({j \in 2..Len(toks) : IsTick(toks, j)})

\* text.replace(old, new) outside the protected regions
RECURSIVE replace_escape(_, _, _)
replace_escape(toks, old, new) ==
    IF toks = <<>> THEN <<>>
    ELSE IF /\ Len(toks) >= Len(old)
            /\ \A k \in 1..Len(old) :
                  ~toks[k].protected /\ toks[k].text = SubSeq(old, k, k)
      THEN <<PlainChar(new)>> \o replace_escape(SubSeq(toks, Len(old) + 1, Len(toks)), old, new)
    ELSE <<Head(toks)>> \o replace_escape(Tail(toks), old, new)

\* _clean_text_executable(text): fenced and inline code is protected, the
\* escapes \\n, \n and \t of the rest become a newline or a tab, and the
\* protected regions are put back.  (No text of the model spells a <code>
\* or <pre> tag.)
clean_text_executable(text) ==
    IF text = "" THEN text
    ELSE TextOf(replace_escape(
                  replace_escape(
                    replace_escape(protect_inline(protect_fenced(CharsOf(text))),
                                   "\\\\n", "\n"),
                    "\\n", "\n"),
                  "\\t", "\t"))

\* Mutation of _clean_text_verbatim: the escapes are interpreted.
clean_text_verbatim_interpreting(text) == clean_text_executable(text)

\* _clean_text_verbatim(text)
clean_text_verbatim(text) == text

\* _clean_text(text, render_mode=render_mode): the cleaned text, or the
\* ValueError of the identity assertion in verbatim mode.
clean_text(text, render_mode) ==
    IF effective_mode(render_mode) # "executable"
      THEN (IF text # clean_text_verbatim(text) \/ Len(text) # Len(clean_text_verbatim(text))
              THEN [raised |-> "ValueError", text |-> text]
            ELSE [raised |-> Null, text |-> clean_text_verbatim(text)])
    ELSE [raised |-> Null, text |-> clean_text_executable(text)]

\* htmlize_prompt(text, excerpt_numbering=False, render_mode=render_mode)
htmlize_prompt(text, render_mode) ==
    IF effective_mode(render_mode) # "executable" THEN text
    ELSE IF has_html_tag(text) THEN text
    ELSE IF Strip(text) = ">>>" THEN render_excerpt_block("")
    ELSE IF StartsWith(text, "> ") THEN "<blockquote>" \o xml_escape(Drop(text, 2)) \o "</blockquote>"
    ELSE IF IsBlank(text) THEN "<p></p>"
    ELSE "<p>" \o xml_escape(text) \o "</p>"

\* htmlize_choice(text, render_mode=render_mode)
htmlize_choice(text, render_mode) ==
    IF effective_mode(render_mode) # "executable" THEN text
    ELSE IF text = "" THEN "<p></p>"
    ELSE "<p>" \o xml_escape(text) \o "</p>"

\* htmlize_item_text(text, render_mode=render_mode)
htmlize_item_text(text, render_mode) ==
    IF effective_mode(render_mode) # "executable" THEN text
    ELSE IF text = "" THEN ""
    ELSE xml_escape(text)

----------------------------------------------------------------------------
(* QTI generation: engine/rendering/canvas/qti_builder.py and              *)
(* numerical_renderer.py.  The assessment XML is the list of its <item>    *)
(* elements; an element's text is kept in its serialized (escaped) form.   *)
(* Identifiers, metadata fields and the score weights carry no             *)
(* student-visible text and are left out.                                  *)

\* A <mattext> element as serialize_element writes it.
mattext(texttype, text) == [texttype |-> texttype, cdata |-> xml_escape(text)]

\* html_mattext(text)
html_mattext(text) == mattext("text/html", text)

\* A <response_lid>: its own <material>, the <material position="top"> of an
\* ordering question, and the <mattext> of its <response_label> elements.
response_lid(material, top, labels) == [material |-> material, top |-> top, labels |-> labels]

\* The first occurrences of the entries of a list (insertion order of a dict).
RECURSIVE Unique(_)
Unique(s) ==
    IF s = <<>> THEN <<>>
    ELSE LET init == Unique(SubSeq(s, 1, Len(s) - 1))
             last == s[Len(s)]
         IN IF \E k \in 1..Len(init) : init[k] = last THEN init ELSE Append(init, last)

\* _format_decimal(value): the text written denotes the normalized value.
format_decimal(value) == DecNorm(value)

\* _build_scoring(spec, item) of numerical_renderer.py with _append_bounds:
\* the condition written into the item, or the ValueError raised.
numerical_scoring(spec) ==
    LET bounds_missing == spec.lower_bound = None \/ spec.upper_bound = None
        condition(answer_val) ==
            [raised |-> Null,
             varequal |-> format_decimal(answer_val),
             lower_tag |-> IF spec.strict_lower THEN "vargt" ELSE "vargte",
             lower |-> format_decimal(Get(spec.lower_bound)),
             upper |-> format_decimal(Get(spec.upper_bound))]
    IN IF spec.tolerance_mode = "range"
         THEN IF bounds_missing THEN Raised("ValueError")
              ELSE IF spec.answer = None
                THEN condition(DecMul(DecAdd(Get(spec.lower_bound), Get(spec.upper_bound)),
                                      Dec(5, -1)))
              ELSE condition(Get(spec.answer))
       ELSE IF spec.tolerance_mode \in {"percent_margin", "absolute_margin"}
               /\ spec.margin_value = None THEN Raised("ValueError")
       ELSE IF spec.tolerance_mode \in {"significant_digits", "decimal_places"}
               /\ spec.precision_value = None THEN Raised("ValueError")
       ELSE IF spec.answer = None THEN Raised("ValueError")
       ELSE IF bounds_missing THEN Raised("ValueError")
       ELSE condition(Get(spec.answer))

QtiItem(question_type, prompt, lids, scoring) ==
    [raised |-> Null, question_type |-> question_type, prompt |-> prompt,
     lids |-> lids, scoring |-> scoring]

\* _build_response(question, presentation): the <response_lid> elements.
build_response(q) ==
    CASE q.qtype \in {"MC", "MA"} ->
           <<response_lid(None, None,
               [k \in 1..Len(q.choices) |->
                  html_mattext(htmlize_choice(q.choices[k].text, "verbatim"))])>>
      [] q.qtype = "TF" ->
           <<response_lid(None, None, <<html_mattext("<p>True</p>"), html_mattext("<p>False</p>")>>)>>
      [] q.qtype = "MATCHING" ->
           LET answers == Unique([k \in 1..Len(q.pairs) |-> q.pairs[k].answer])
           IN [p \in 1..Len(q.pairs) |->
                 response_lid(
                   Some(html_mattext("<p>" \o htmlize_item_text(q.pairs[p].prompt, "verbatim") \o "</p>")),
                   None,
                   [a \in 1..Len(answers) |->
                      html_mattext("<p>" \o htmlize_item_text(answers[a], "verbatim") \o "</p>")])]
      [] q.qtype = "FITB" ->
           <<response_lid(Some(mattext("", "Question")), None,
               [k \in 1..Len(q.variants) |-> mattext("text/plain", q.variants[k])])>>
      [] q.qtype = "ORDERING" ->
           <<response_lid(None,
               IF q.header # Null /\ q.header # ""
                 THEN Some(html_mattext("<p>" \o htmlize_item_text(q.header, "verbatim") \o "</p>"))
               ELSE None,
               [k \in 1..Len(q.items) |->
                  html_mattext("<p>" \o htmlize_item_text(q.items[k], "verbatim") \o "</p>")])>>
      [] q.qtype = "CATEGORIZATION" ->
           LET pool == Unique([k \in 1..Len(q.items) |-> q.items[k].item_text])
           IN [c \in 1..Len(q.categories) |->
                 response_lid(
                   Some(html_mattext("<p>" \o htmlize_item_text(q.categories[c], "verbatim") \o "</p>")),
                   None,
                   [k \in 1..Len(pool) |->
                      html_mattext("<p>" \o htmlize_item_text(pool[k], "verbatim") \o "</p>")])]
      [] OTHER -> <<>>

\* _build_item(question, index): the <item>, or the exception raised.
build_item(q) ==
    LET prompt == html_mattext(htmlize_prompt(q.prompt, "verbatim"))
    IN CASE q.qtype = "NUMERICAL" ->
              IF numerical_scoring(q.answer).raised # Null THEN Raised("ValueError")
              ELSE QtiItem("numerical_question", prompt, <<>>, Some(numerical_scoring(q.answer)))
         [] q.qtype = "MC" /\ FirstCorrect(q.choices) = 0 -> Raised("IndexError")
         [] q.qtype = "CATEGORIZATION" /\ q.categories = <<>> -> Raised("ZeroDivisionError")
         [] OTHER -> QtiItem(q.qtype, prompt, build_response(q), None)

\* build_assessment_xml(quiz)
build_assessment_xml(qs) ==
    LET built == [i \in 1..Len(qs) |-> build_item(qs[i])]
        failing == {i \in 1..Len(qs) : built[i].raised # Null}
    IN IF failing # {}
         THEN Raised(built[CHOOSE i \in failing : \A j \in failing : i <= j].raised)
       ELSE [raised |-> Null, items |-> built]

----------------------------------------------------------------------------
(* Round-trip verification: engine/rendering/canvas/qti_roundtrip.py *)

\* _mattext_value(elem) on the parsed element.
mattext_value(elem) ==
    IF elem.texttype = "text/html" THEN html_to_visible_text(xml_parse_text(elem.cdata))
    ELSE xml_parse_text(elem.cdata)

\* _expected_for_question(question) for every class but StimulusItem (whose
\* prompt goes through the passage numbering).  No question carries a
\* render_mode attribute, so the function takes "executable".
expected_for_question(q) ==
    LET render_mode == "executable"
    IN <<html_to_visible_text(htmlize_prompt(q.prompt, render_mode))>>
       \o (CASE q.qtype \in {"MC", "MA"} ->
                  [k \in 1..Len(q.choices) |->
                     html_to_visible_text(htmlize_choice(q.choices[k].text, render_mode))]
             [] q.qtype = "MATCHING" ->
                  LET answers_in_order == Unique([k \in 1..Len(q.pairs) |-> q.pairs[k].answer])
                  IN Flatten([p \in 1..Len(q.pairs) |-> <<q.pairs[p].prompt>> \o answers_in_order])
             [] q.qtype = "ORDERING" ->
                  (IF q.header # Null /\ q.header # "" THEN <<q.header>> ELSE <<>>) \o q.items
             [] q.qtype = "CATEGORIZATION" ->
                  LET items_in_order == [k \in 1..Len(q.items) |-> q.items[k].item_text]
                  IN Flatten([c \in 1..Len(q.categories) |-> <<q.categories[c]>> \o items_in_order])
             [] q.qtype = "FITB" ->
                  IF Lower(IF q.answer_mode = Null \/ q.answer_mode = "" THEN "open_entry"
                           ELSE q.answer_mode) \in {"dropdown", "wordbank"}
                    THEN q.options ELSE <<>>
             [] OTHER -> <<>>)

\* All <response_label> texts of an item, in document order.
LabelValues(item) ==
    Flatten([l \in 1..Len(item.lids) |->
               [k \in 1..Len(item.lids[l].labels) |-> mattext_value(item.lids[l].labels[k])]])

\* _extract_for_item(item_elem, ns, question)
extract_for_item(item, q) ==
    <<mattext_value(item.prompt)>>
    \o (CASE q.qtype \in {"MC", "MA"} -> LabelValues(item)
          [] q.qtype \in {"MATCHING", "CATEGORIZATION"} ->
               Flatten([l \in 1..Len(item.lids) |->
                          <<IF item.lids[l].material # None
                              THEN mattext_value(Get(item.lids[l].material)) ELSE "">>
                          \o [k \in 1..Len(item.lids[l].labels) |->
                                mattext_value(item.lids[l].labels[k])]])
          [] q.qtype = "ORDERING" ->
               (IF q.header # Null /\ q.header # ""
                  THEN <<IF item.lids # <<>> /\ item.lids[1].top # None
                           THEN mattext_value(Get(item.lids[1].top)) ELSE "">>
                ELSE <<>>)
               \o LabelValues(item)
          [] q.qtype = "FITB" ->
               IF Lower(IF q.answer_mode = Null \/ q.answer_mode = "" THEN "open_entry"
                        ELSE q.answer_mode) \in {"dropdown", "wordbank"}
                 THEN LabelValues(item) ELSE <<>>
          [] OTHER -> <<>>)

\* verify_qti_round_trip(quiz, assessment_xml): Null when it returns, the
\* exception when it raises.
verify_qti_round_trip(qs, items) ==
    IF Len(items) # Len(qs) THEN "ValueError"
    ELSE IF \E i \in 1..Len(qs) : expected_for_question(qs[i]) # extract_for_item(items[i], qs[i])
      THEN "ValueError"
    ELSE Null

----------------------------------------------------------------------------
(* Packagers: engine/rendering/canvas/canvas_packager.py and               *)
(* engine/packagers.  A ZIP is modelled by the assessment XML it holds;    *)
(* the manifest and the meta file do not depend on the questions.          *)

\* create_zip_bytes(manifest_xml, assessment_xml, meta_xml, guid)
create_zip_bytes(assessment_xml) == [assessment |-> assessment_xml]

PackageOutcome(called, assessment, zipped, exc) ==
    [calls |-> called, xml |-> assessment, zip |-> zipped, raised |-> exc]

\* CanvasPackager.package(quiz)
CanvasPackager_package(qs) ==
    LET built == build_assessment_xml(qs)
    IN IF validate_render_mode(qs) # <<>>
         THEN PackageOutcome(<<"validate_render_mode">>, None, None, "ValueError")
       ELSE IF built.raised # Null
         THEN PackageOutcome(<<"validate_render_mode", "build_assessment_xml">>,
                             None, None, built.raised)
       ELSE IF verify_qti_round_trip(qs, built.items) # Null
         THEN PackageOutcome(<<"validate_render_mode", "build_assessment_xml",
                               "verify_qti_round_trip">>,
                             Some(built.items), None, verify_qti_round_trip(qs, built.items))
       ELSE PackageOutcome(<<"validate_render_mode", "build_assessment_xml",
                             "verify_qti_round_trip", "create_zip_bytes">>,
                           Some(built.items), Some(create_zip_bytes(built.items)), Null)

\* CanvasHandler.package(quiz, output_base)
CanvasHandler_package(qs) ==
    LET built == build_assessment_xml(qs)
    IN IF built.raised # Null
         THEN PackageOutcome(<<"build_assessment_xml">>, None, None, built.raised)
       ELSE PackageOutcome(<<"build_assessment_xml", "create_zip_bytes">>,
                           Some(built.items), Some(create_zip_bytes(built.items)), Null)

----------------------------------------------------------------------------
(* SpecCanvas: the two Canvas packagers on single-question quizzes whose   *)
(* student-visible texts range over short strings with markup characters.  *)
(* StimulusItem is left out: its expected prompt goes through the passage  *)
(* numbering, which is not modelled.                                       *)

MaxTextLen == 3        \* longest student-visible text tried

TextAlphabet == {"a", "<", ">", "&"}

RECURSIVE TextsOfLen(_)
TextsOfLen(n) ==
    IF n = 0 THEN {""} ELSE {c \o t : c \in TextAlphabet, t \in TextsOfLen(n - 1)}

Texts == UNION {TextsOfLen(n) : n \in 0..MaxTextLen}

InvertedRangeAnswer ==
    NumericalAnswer(Some(Dec(1, 0)), "range", None, Some(Dec(2, 0)), Some(Dec(1, 0)), None,
                    Some(Dec(2, 0)), Some(Dec(1, 0)), FALSE)

CanvasQuestions ==
    {Question("ESSAY", t) : t \in Texts}
    \cup {MCQuestion("a", <<MCChoice(t, TRUE), MCChoice("a", FALSE)>>) : t \in Texts}
    \cup {MCQuestion("a", <<MCChoice("a", FALSE), MCChoice("a", FALSE)>>)}
    \cup {MAQuestion("a", <<MCChoice("a", TRUE), MCChoice(t, FALSE)>>) : t \in Texts}
    \cup {TFQuestion(t, TRUE) : t \in Texts}
    \cup {MatchingQuestion("a", <<MatchingPair(t, "a"), MatchingPair("a", t)>>) : t \in Texts}
    \cup {OrderingQuestion("a", <<t, "a">>, h) : t \in Texts, h \in {Null, "a"}}
    \cup {OrderingQuestion("a", <<"a", "a">>, t) : t \in Texts}
    \cup {CategorizationQuestion("a", <<t, "a">>, <<CategoryMapping("a", t)>>) : t \in Texts}
    \cup {CategorizationQuestion("a", <<"a">>, <<CategoryMapping(t, "a"), CategoryMapping("a", "a")>>) :
            t \in Texts}
    \cup {NumericalQuestion(t, ValidNumericalAnswer) : t \in Texts}
    \cup {NumericalQuestion("a", InvertedRangeAnswer)}
    \cup {FITBQuestion(t, <<"a">>, "open_entry", <<>>, <<>>, <<>>) : t \in Texts}
    \cup {StimulusEnd(t) : t \in Texts}

InitCanvas ==
    /\ pc = "canvas_start"
    /\ questions \in {<<q>> : q \in CanvasQuestions}
    /\ input = questions
    /\ entry \in {"CanvasPackager.package", "CanvasHandler.package"}
    /\ calls = <<>>
    /\ xml = None
    /\ zip = None
    /\ raised = Null
    /\ total_points = Unused /\ errors = Unused /\ bounds = Unused /\ status = Unused
    /\ warnings = Unused /\ physical = Unused /\ fail_prompt = Unused

\* The outcome of a packager becomes the state of the run.
Packaged(outcome) ==
    /\ calls' = outcome.calls
    /\ xml' = outcome.xml
    /\ zip' = outcome.zip
    /\ raised' = outcome.raised
    /\ pc' = "canvas_done"
    /\ UNCHANGED <<questions, total_points, input, errors, bounds, entry, status,
                   warnings, physical, fail_prompt>>

DoCanvasPackagerPackage ==
    /\ pc = "canvas_start"
    /\ entry = "CanvasPackager.package"
    /\ Packaged(CanvasPackager_package(questions))

DoCanvasHandlerPackage ==
    /\ pc = "canvas_start"
    /\ entry = "CanvasHandler.package"
    /\ Packaged(CanvasHandler_package(questions))

NextCanvas == DoCanvasPackagerPackage \/ DoCanvasHandlerPackage

SpecCanvas == InitCanvas /\ [][NextCanvas]_vars

----------------------------------------------------------------------------
(* C3: no Canvas ZIP is produced unless round-trip verification has run on *)
(* the generated assessment XML and passed: on every path that builds the  *)
(* ZIP bytes (CanvasPackager.package and CanvasHandler.package),           *)
(* build_assessment_xml is followed by verify_qti_round_trip before        *)
(* create_zip_bytes, and a verification error prevents the ZIP.            *)

CalledInOrder(first, second, third) ==
    \E i, j, k \in 1..Len(calls) :
        i < j /\ j < k /\ calls[i] = first /\ calls[j] = second /\ calls[k] = third

C3_ZipOnlyAfterVerification ==
    (pc = "canvas_done" /\ zip # None) =>
        /\ CalledInOrder("build_assessment_xml", "verify_qti_round_trip", "create_zip_bytes")
        /\ verify_qti_round_trip(input, Get(zip).assessment) = Null

----------------------------------------------------------------------------
(* C4: for every question variant, the student-visible strings re-extracted *)
(* from the generated QTI XML equal, in the same order and in both value   *)
(* and length, the corresponding strings of the source question (prompt,   *)
(* choice texts, pair left/right texts, ordering header and items,         *)
(* category names and pooled item labels, closed-choice FITB options);     *)
(* verify_qti_round_trip raises on any difference, so an assessment that   *)
(* passed the verification reads back as its source.                       *)

\* The source strings of a question, in the order of the extraction.
OriginalStrings(q) ==
    <<q.prompt>>
    \o (CASE q.qtype \in {"MC", "MA"} -> [k \in 1..Len(q.choices) |-> q.choices[k].text]
          [] q.qtype = "MATCHING" ->
               Flatten([p \in 1..Len(q.pairs) |->
                          <<q.pairs[p].prompt>>
                          \o Unique([k \in 1..Len(q.pairs) |-> q.pairs[k].answer])])
          [] q.qtype = "ORDERING" ->
               (IF q.header # Null /\ q.header # "" THEN <<q.header>> ELSE <<>>) \o q.items
          [] q.qtype = "CATEGORIZATION" ->
               Flatten([c \in 1..Len(q.categories) |->
                          <<q.categories[c]>>
                          \o Unique([k \in 1..Len(q.items) |-> q.items[k].item_text])])
          [] q.qtype = "FITB" ->
               IF q.answer_mode \in {"dropdown", "wordbank"} THEN q.options ELSE <<>>
          [] OTHER -> <<>>)

SameStrings(a, b) ==
    /\ Len(a) = Len(b)
    /\ \A k \in 1..Len(a) : a[k] = b[k] /\ Len(a[k]) = Len(b[k])

C4_VerifiedXmlReadsBackAsSource ==
    (pc = "canvas_done" /\ entry = "CanvasPackager.package" /\ raised = Null) =>
        \A i \in 1..Len(input) :
            SameStrings(extract_for_item(Get(xml)[i], input[i]), OriginalStrings(input[i]))

----------------------------------------------------------------------------
(* Packaging router: engine/packagers/packager.py *)

\* PhysicalHandler.package(quiz, output_base): the DOCX files are written,
\* or the generation fails and the handler writes physical_error.log.
PhysicalHandler_package == {"docx_files", "error_log"}

\* package_quiz(quiz, output_base): the outcomes of the Canvas handler
\* followed by the physical handler; an exception of the Canvas handler
\* leaves the router before the physical handler is reached.
package_quiz(qs) ==
    LET canvas == CanvasHandler_package(qs)
    IN IF canvas.raised # Null THEN {[canvas |-> canvas, physical |-> Null]}
       ELSE {[canvas |-> canvas, physical |-> p] : p \in PhysicalHandler_package}

----------------------------------------------------------------------------
(* SpecPipeline: the two pipeline entry points on JSON payloads,           *)
(* QuizForgeOrchestrator.process_file (engine/orchestrator.py) and         *)
(* run_quizforge_job (run_quizforge.py), one action per step.  `calls`     *)
(* lists the functions called so far.                                      *)

InitPipeline ==
    /\ pc = "import"
    /\ entry \in {"process_file", "run_quizforge_job"}
    /\ input \in Payloads
    /\ questions = <<>>
    /\ total_points = DEFAULT_QUIZ_POINTS
    /\ calls = <<>>
    /\ status = Null
    /\ errors = <<>>
    /\ warnings = <<>>
    /\ xml = None
    /\ zip = None
    /\ raised = Null
    /\ physical = Null
    /\ fail_prompt = FALSE
    /\ bounds = Unused

\* imported = import_quiz_from_llm(text)
ImportQuiz ==
    /\ pc = "import"
    /\ import_quiz_from_llm(input).raised = Null
    /\ questions' = import_quiz_from_llm(input).questions
    /\ calls' = Append(calls, "import_quiz_from_llm")
    /\ pc' = "calculate_points"
    /\ UNCHANGED <<total_points, input, errors, bounds, entry, status, warnings, xml,
                   zip, raised, physical, fail_prompt>>

\* process_file: the import raises and _handle_parse_failure writes the
\* fail prompt.
HandleParseFailure ==
    /\ pc = "import"
    /\ entry = "process_file"
    /\ import_quiz_from_llm(input).raised # Null
    /\ calls' = Append(calls, "import_quiz_from_llm")
    /\ fail_prompt' = TRUE
    /\ pc' = "done"
    /\ UNCHANGED <<questions, total_points, input, errors, bounds, entry, status,
                   warnings, xml, zip, raised, physical>>

\* run_quizforge_job: the exception of the import leaves the job.
JobImportRaises ==
    /\ pc = "import"
    /\ entry = "run_quizforge_job"
    /\ import_quiz_from_llm(input).raised # Null
    /\ calls' = Append(calls, "import_quiz_from_llm")
    /\ raised' = import_quiz_from_llm(input).raised
    /\ pc' = "done"
    /\ UNCHANGED <<questions, total_points, input, errors, bounds, entry, status,
                   warnings, xml, zip, physical, fail_prompt>>

\* quiz.questions = calculate_points(quiz.questions, total_points=DEFAULT_QUIZ_POINTS)
AssignPoints ==
    /\ pc = "calculate_points"
    /\ questions' \in CalculatePoints(questions, total_points)
    /\ calls' = Append(calls, "calculate_points")
    /\ pc' = "balance_answers"
    /\ UNCHANGED <<total_points, input, errors, bounds, entry, status, warnings, xml,
                   zip, raised, physical, fail_prompt>>

\* quiz.questions = balance_answers(quiz.questions)
BalanceChoices ==
    /\ pc = "balance_answers"
    /\ questions' \in balance_answers(questions)
    /\ calls' = Append(calls, "balance_answers")
    /\ pc' = "validate"
    /\ UNCHANGED <<total_points, input, errors, bounds, entry, status, warnings, xml,
                   zip, raised, physical, fail_prompt>>

\* result = validator.validate(quiz): the structural check, and the fixers
\* (balance_answers last) when it passes.  The quiz is fixed in place.
Validate ==
    /\ pc = "validate"
    /\ \E r \in validate(questions) :
         /\ questions' = r.quiz
         /\ status' = r.status
         /\ errors' = r.errors
         /\ warnings' = r.warnings
         /\ calls' = calls \o (IF r.status = "FAIL" THEN <<"validate_structure">>
                               ELSE <<"validate_structure", "balance_answers">>)
    /\ pc' = IF entry = "process_file" THEN "route" ELSE "package"
    /\ UNCHANGED <<total_points, input, bounds, entry, xml, zip, raised, physical,
                   fail_prompt>>

\* process_file, result.status == FAIL: _handle_validation_failure writes
\* the fail prompt.
HandleValidationFailure ==
    /\ pc = "route"
    /\ status = "FAIL"
    /\ fail_prompt' = TRUE
    /\ pc' = "done"
    /\ UNCHANGED <<questions, total_points, input, errors, bounds, entry, calls, status,
                   warnings, xml, zip, raised, physical>>

\* What package_quiz leaves behind.  `caught` says whether the caller
\* catches the exception of the Canvas handler.
PackageQuiz(caught) ==
    \E r \in package_quiz(questions) :
        /\ calls' = Append(calls, "package_quiz") \o r.canvas.calls
        /\ xml' = r.canvas.xml
        /\ zip' = r.canvas.zip
        /\ physical' = r.physical
        /\ raised' = IF caught THEN Null ELSE r.canvas.raised
        /\ pc' = "done"
        /\ UNCHANGED <<questions, total_points, input, errors, bounds, entry, status,
                       warnings, fail_prompt>>

\* process_file, any other status: _handle_validation_success packages the
\* quiz and reports a packaging failure without raising.
HandleValidationSuccess ==
    /\ pc = "route"
    /\ status # "FAIL"
    /\ PackageQuiz(TRUE)

\* run_quizforge_job: package_quiz(quiz, output_path) follows the
\* validation whatever its status.
JobPackage ==
    /\ pc = "package"
    /\ PackageQuiz(FALSE)

NextPipeline ==
    \/ ImportQuiz
    \/ HandleParseFailure
    \/ JobImportRaises
    \/ AssignPoints
    \/ BalanceChoices
    \/ Validate
    \/ HandleValidationFailure
    \/ HandleValidationSuccess
    \/ JobPackage

SpecPipeline == InitPipeline /\ [][NextPipeline]_vars

----------------------------------------------------------------------------
(* C2: in every pipeline entry point (process_file and run_quizforge_job), *)
(* when QuizValidator.validate returns FAIL the run produces no Canvas or  *)
(* physical package: package_quiz is never invoked for that quiz.          *)

Called(name) == \E k \in 1..Len(calls) : calls[k] = name

C2_NoPackageAfterFail ==
    status = "FAIL" => (~Called("package_quiz") /\ zip = None /\ physical = Null)

----------------------------------------------------------------------------
(* C6: point allocation and answer balancing are applied to a quiz only    *)
(* after structural validation of that quiz has passed: no call to         *)
(* calculate_points or balance_answers precedes the structural check, and  *)
(* none happens for a quiz that fails it.                                  *)

C6_FixesOnlyAfterStructurePassed ==
    \A k \in 1..Len(calls) :
        calls[k] \in {"calculate_points", "balance_answers"} =>
            /\ \E j \in 1..(k - 1) : calls[j] = "validate_structure"
            /\ status # "FAIL"

----------------------------------------------------------------------------
(* C10: every NumericalQuestion for which a QTI item is generated has      *)
(* non-null lower_bound and upper_bound with lower_bound <= upper_bound,   *)
(* and in exact mode lower_bound = upper_bound = answer.                   *)

BoundsInvariant(a) ==
    /\ a.lower_bound # None
    /\ a.upper_bound # None
    /\ DecLeq(Get(a.lower_bound), Get(a.upper_bound))
    /\ a.tolerance_mode = "exact" =>
         /\ a.answer # None
         /\ DecEq(Get(a.lower_bound), Get(a.answer))
         /\ DecEq(Get(a.upper_bound), Get(a.answer))

C10_GeneratedNumericalItemsHaveOrderedBounds ==
    xml # None =>
        \A i \in 1..Len(questions) :
            questions[i].qtype = "NUMERICAL" => BoundsInvariant(questions[i].answer)

----------------------------------------------------------------------------
(* Text outline parser: engine/parsing/text_parser.py.  A text is the list *)
(* of its lines (content.split("\n")).                                     *)

\* First position at which `sub` occurs in s, 0 when it does not.
FindSub(s, sub) ==
    LET least(hits) == IF hits = {} THEN 0 ELSE CHOOSE i \in hits : \A j \in hits : i <= j
    IN least({i \in 1..(Len(s) - Len(sub) + 1) : SubSeq(s, i, i + Len(sub) - 1) = sub})

Contains(s, sub) == FindSub(s, sub) > 0

\* s.replace(old, new) for a non-empty old
RECURSIVE Replace(_, _, _)
Replace(s, old, new) ==
    LET from(k) ==
            IF k = 0 THEN s
            ELSE SubSeq(s, 1, k - 1) \o new \o Replace(Drop(s, k + Len(old) - 1), old, new)
    IN from(FindSub(s, old))

RECURSIVE UpperChar(_, _)
UpperChar(c, k) ==
    IF k > Len(LowerCase) THEN c
    ELSE IF SubSeq(LowerCase, k, k) = c THEN SubSeq(UpperCase, k, k)
    ELSE UpperChar(c, k + 1)

\* str.upper()
RECURSIVE Upper(_)
Upper(s) == IF s = "" THEN s ELSE UpperChar(Head(s), 1) \o Upper(Tail(s))

\* line.split(":", 1)[1].strip() of a line that holds a colon
AfterColon(line) == Strip(Drop(line, IndexOf(line, ":")))

Digits == "0123456789"

IsDigit(c) == c # "" /\ IndexOf(Digits, c) > 0

\* The number a string of decimal digits denotes; -1 for any other string.
RECURSIVE DigitsValue(_)
DigitsValue(s) ==
    IF s = "" THEN -1
    ELSE LET last == SubSeq(s, Len(s), Len(s))
             init == SubSeq(s, 1, Len(s) - 1)
             shifted(v, unit) == IF v < 0 THEN -1 ELSE 10 * v + unit
             units(place) ==
                 IF place = 0 THEN -1
                 ELSE IF init = "" THEN place - 1
                 ELSE shifted(DigitsValue(init), place - 1)
         IN units(IndexOf(Digits, last))

\* An optional sign in front of the text: <<sign, rest>>.
Signed(s) ==
    IF StartsWith(s, "-") THEN <<-1, Drop(s, 1)>>
    ELSE IF StartsWith(s, "+") THEN <<1, Drop(s, 1)>>
    ELSE <<1, s>>

\* int(s) of a signed digit string: <<TRUE, value>>, or <<FALSE, 0>>.
SignedInt(s) ==
    LET valued(sign, v) == IF v < 0 THEN <<FALSE, 0>> ELSE <<TRUE, sign * v>>
        unsigned(sg) == valued(sg[1], DigitsValue(sg[2]))
    IN unsigned(Signed(s))

\* Decimal(s) of a numeral: sign, digits with at most one point, and an
\* optional exponent.  Any other text raises InvalidOperation (the special
\* values Infinity and NaN are not among the texts tried).  Each part is
\* worked out once and handed on: the sign, the place of the exponent, the
\* mantissa and the exponent, the place of the point, the digits.
DecimalOf(s) ==
    LET valued(sign, frac, digits, expo) ==
            IF digits < 0 \/ ~expo[1] THEN Raised("InvalidOperation")
            ELSE [raised |-> Null, value |-> Dec(sign * digits, expo[2] - Len(frac))]
        pointed(sign, mant, expo, dot) ==
            LET whole == IF dot = 0 THEN mant ELSE SubSeq(mant, 1, dot - 1)
                frac == IF dot = 0 THEN "" ELSE Drop(mant, dot)
            IN valued(sign, frac, DigitsValue(whole \o frac), expo)
        mantissa(sign, mant, expo) == pointed(sign, mant, expo, IndexOf(mant, "."))
        exponent(sign, rest, epos) ==
            mantissa(sign,
                     IF epos = 0 THEN rest ELSE SubSeq(rest, 1, epos - 1),
                     IF epos = 0 THEN <<TRUE, 0>> ELSE SignedInt(Drop(rest, epos)))
        unsigned(sg) == exponent(sg[1], sg[2], IndexOf(Lower(sg[2]), "e"))
    IN unsigned(Signed(s))

\* _parse_decimal_value(raw)
parse_decimal_value(raw) ==
    LET checked(d) == IF d.raised # Null THEN Raised("ValueError") ELSE d
        cleaned(stripped) ==
            IF stripped = "" THEN Raised("ValueError")
            ELSE checked(DecimalOf(Replace(stripped, ",", "")))
    IN cleaned(Strip(raw))

\* The leftmost longest numeral [+-]?\d+(\.\d+)?(e[+-]?\d+)? starting at
\* position i of s: its length, 0 when none starts there.
RECURSIVE DigitRun(_, _)
DigitRun(s, i) == IF i <= Len(s) /\ IsDigit(SubSeq(s, i, i)) THEN 1 + DigitRun(s, i + 1) ELSE 0

NumeralLen(s, i) ==
    LET sign == IF i <= Len(s) /\ SubSeq(s, i, i) \in {"+", "-"} THEN 1 ELSE 0
        with_expo(whole, frac, q, esign, run) ==
            LET expo == IF q <= Len(s) /\ SubSeq(s, q, q) \in {"e", "E"} /\ run > 0
                          THEN 1 + esign + run ELSE 0
            IN IF whole = 0 THEN 0 ELSE sign + whole + frac + expo
        with_esign(whole, frac, q, esign) ==
            with_expo(whole, frac, q, esign, DigitRun(s, q + 1 + esign))
        with_frac(whole, frac, q) ==
            with_esign(whole, frac, q,
                       IF q + 1 <= Len(s) /\ SubSeq(s, q + 1, q + 1) \in {"+", "-"}
                         THEN 1 ELSE 0)
        with_point(whole, p, run) ==
            LET frac == IF p <= Len(s) /\ SubSeq(s, p, p) = "." /\ run > 0 THEN 1 + run ELSE 0
            IN with_frac(whole, frac, p + frac)
        with_whole(whole) == with_point(whole, i + sign + whole, DigitRun(s, i + sign + whole + 1))
    IN with_whole(DigitRun(s, i + sign))

\* Number of whitespace characters of s from position i on.
RECURSIVE SpaceRun(_, _)
SpaceRun(s, i) == IF i <= Len(s) /\ IsSpace(SubSeq(s, i, i)) THEN 1 + SpaceRun(s, i + 1) ELSE 0

\* The positions at which the pattern numeral \s* % of
\* _parse_numerical_tolerance matches.
PercentStarts(s) ==
    LET sign_at(after) == after <= Len(s) /\ SubSeq(s, after, after) = "%"
        matches(i, n) == n > 0 /\ sign_at(i + n + SpaceRun(s, i + n))
    IN {i \in 1..Len(s) : matches(i, NumeralLen(s, i))}

\* _parse_numerical_tolerance(raw): the mode and the absolute value, or the
\* ValueError.  (The plus-minus and minus signs outside ASCII that it also
\* strips are not among the texts tried.)
parse_numerical_tolerance(raw) ==
    LET margin(mode, number) ==
            IF number.raised # Null THEN Raised("ValueError")
            ELSE [raised |-> Null, mode |-> mode, value |-> DecAbs(number.value)]
        percent(lowered, first) ==
            margin("percent_margin",
                   parse_decimal_value(
                       SubSeq(lowered, first, first + NumeralLen(lowered, first) - 1)))
        matched(normalized, lowered, starts) ==
            IF starts # {}
              THEN percent(lowered, CHOOSE i \in starts : \A j \in starts : i <= j)
            ELSE margin("absolute_margin",
                        parse_decimal_value(Strip(Replace(normalized, "+/-", ""))))
        searched(normalized, lowered) == matched(normalized, lowered, PercentStarts(lowered))
        stripped(normalized) ==
            IF normalized = "" THEN Raised("ValueError")
            ELSE searched(normalized,
                          Replace(Replace(Lower(normalized), "percentage", "%"),
                                  "percent", "%"))
    IN stripped(Strip(raw))

\* _parse_numerical_range(raw): minimum and maximum, or the ValueError.
parse_numerical_range(raw) ==
    LET ordered(minimum, maximum) ==
            IF minimum.raised # Null \/ maximum.raised # Null THEN Raised("ValueError")
            ELSE IF ~DecLess(minimum.value, maximum.value) THEN Raised("ValueError")
            ELSE [raised |-> Null, min |-> minimum.value, max |-> maximum.value]
        matched(s, n1, p, sep, q, n2) ==
            IF n1 = 0 \/ p > Len(s) \/ sep = 0 \/ n2 = 0 \/ q + n2 - 1 # Len(s)
              THEN Raised("ValueError")
            ELSE ordered(parse_decimal_value(SubSeq(s, 1, n1)),
                         parse_decimal_value(SubSeq(s, q, q + n2 - 1)))
        second(s, n1, p, sep, q) == matched(s, n1, p, sep, q, NumeralLen(s, q))
        separated(s, n1, p, sep) == second(s, n1, p, sep, p + sep + SpaceRun(s, p + sep))
        separator(s, n1, p, word) ==
            separated(s, n1, p,
                      IF word = "to" THEN 2 ELSE IF SubSeq(s, p, p) = "-" THEN 1 ELSE 0)
        first(s, n1, p) == separator(s, n1, p, Lower(SubSeq(s, p, p + 1)))
        numeral(s, n1) == first(s, n1, 1 + n1 + SpaceRun(s, 1 + n1))
        stripped(s) == IF s = "" THEN Raised("ValueError") ELSE numeral(s, NumeralLen(s, 1))
    IN stripped(Strip(raw))

\* _parse_numerical_precision(raw): the mode and the count, or the ValueError.
parse_numerical_precision(raw) ==
    LET counted(normalized, negative, precision_value) ==
            IF negative /\ precision_value > 0 THEN Raised("ValueError")
            ELSE IF Contains(normalized, "sig")
              THEN [raised |-> Null, mode |-> "significant_digits", value |-> precision_value]
            ELSE IF Contains(normalized, "decimal") \/ Contains(normalized, "place")
              THEN [raised |-> Null, mode |-> "decimal_places", value |-> precision_value]
            ELSE Raised("ValueError")
        digits(normalized, negative, from, run) ==
            counted(normalized, negative, DigitsValue(SubSeq(normalized, from, from + run - 1)))
        located(normalized, negative, from) ==
            digits(normalized, negative, from, DigitRun(normalized, from))
        matched(normalized, first) ==
            LET negative == SubSeq(normalized, first, first) = "-"
            IN located(normalized, negative, IF negative THEN first + 1 ELSE first)
        found(normalized, starts) ==
            IF starts = {} THEN Raised("ValueError")
            ELSE matched(normalized, CHOOSE i \in starts : \A j \in starts : i <= j)
        replaced(normalized) ==
            IF normalized = "" THEN Raised("ValueError")
            ELSE found(normalized,
                       {i \in 1..Len(normalized) :
                          \/ IsDigit(SubSeq(normalized, i, i))
                          \/ /\ SubSeq(normalized, i, i) = "-"
                             /\ i < Len(normalized)
                             /\ IsDigit(SubSeq(normalized, i + 1, i + 1))})
    IN replaced(Replace(Replace(Replace(Replace(Lower(Strip(raw)),
           "sig figs", "significant digits"), "sig fig", "significant digit"),
           "sig.", "significant"), "dp", " decimal places"))

\* The part of a list line after its leading "-", when the line matches
\* ^-\s*(.+)$ ; None otherwise.
dash_item(line) ==
    IF StartsWith(line, "-") /\ Len(line) >= 2 THEN Some(Strip(Drop(line, 1))) ELSE None

\* ^-\s*\[(x|X|\s)\]\s*(.+)$ : the choice of a line, or None.
choice_line(line) ==
    LET marked(body, mark) ==
            IF StartsWith(line, "-") /\ StartsWith(body, "[") /\ SubSeq(body, 3, 3) = "]"
               /\ (mark \in {"x", "X"} \/ IsSpace(mark)) /\ Len(body) >= 4
              THEN Some(MCChoice(Strip(Drop(body, 3)), Lower(Strip(mark)) = "x"))
            ELSE None
        bracketed(body) == marked(body, SubSeq(body, 2, 2))
    IN bracketed(LStrip(Drop(line, 1)))

\* ^-\s*(.+?)\s*=>\s*(.+)$ : the two sides of a line, or None.  The left
\* side ends at the first "=>" that leaves it at least one character; a line
\* that starts "- =>" matches with a left side of one blank.
arrow_line(line) ==
    LET split(body, later) ==
            LET first == CHOOSE i \in later : \A j \in later : i <= j
            IN IF ~StartsWith(line, "-") THEN None
               ELSE IF later # {}
                 THEN Some(<<Strip(SubSeq(body, 1, first - 1)), Strip(Drop(body, first + 1))>>)
               ELSE IF StartsWith(body, "=>") /\ Len(body) >= 3
                       /\ Len(Drop(line, 1)) > Len(body)
                 THEN Some(<<"", Strip(Drop(body, 2))>>)
               ELSE None
        arrows(body) == split(body, {i \in 2..(Len(body) - 2) : SubSeq(body, i, i + 1) = "=>"})
    IN arrows(LStrip(Drop(line, 1)))

\* ^\d+\.\s*(.+)$ : the text of a numbered line, or None.
numbered_line(line) ==
    LET numbered(n) ==
            IF n > 0 /\ SubSeq(line, n + 1, n + 1) = "." /\ Len(line) >= n + 2
              THEN Some(Strip(Drop(line, n + 1)))
            ELSE None
    IN numbered(DigitRun(line, 1))

\* float(text) for the point values of the inputs: whole numbers.
FloatOf(text) == SignedInt(text)

\* The local variables of _parse_block before the first line.  `flags` is
\* the set of the in_* flags that are set.
BlockStart ==
    [raised |-> Null, qtype |-> Null, points |-> None, points_explicit |-> FALSE,
     prompt_lines |-> <<>>, choices |-> <<>>, tf_answer |-> None, pairs |-> <<>>,
     variants |-> <<>>, ordering_items |-> <<>>, ordering_header |-> Null,
     categories |-> <<>>, category_items |-> <<>>, distractors |-> <<>>,
     numerical_answer_value |-> None, numerical_mode |-> "exact",
     numerical_margin_value |-> None, numerical_range_min |-> None,
     numerical_range_max |-> None, numerical_precision_value |-> None,
     flags |-> {}]

BlockRaises(st) == [st EXCEPT !.raised = "ValueError"]

\* The Answer: header.
answer_header(st, line) ==
    LET truth(value) ==
            IF value \in {"true", "t", "1", "yes"} THEN [st EXCEPT !.tf_answer = Some(TRUE)]
            ELSE IF value \in {"false", "f", "0", "no"} THEN [st EXCEPT !.tf_answer = Some(FALSE)]
            ELSE BlockRaises(st)
        numeric(number) ==
            IF number.raised # Null THEN BlockRaises(st)
            ELSE [st EXCEPT !.numerical_answer_value = Some(number.value)]
        answered(value) ==
            IF st.qtype = "TF" THEN truth(Lower(value))
            ELSE IF st.qtype = "NUMERICAL" THEN numeric(parse_decimal_value(value))
            ELSE BlockRaises(st)
    IN answered(AfterColon(line))

\* The Tolerance: header.
tolerance_header(st, line) ==
    LET accepted(tol) ==
            IF st.qtype # "NUMERICAL" THEN BlockRaises(st)
            ELSE IF st.numerical_mode \in {"range", "significant_digits", "decimal_places"}
              THEN BlockRaises(st)
            ELSE IF tol.raised # Null THEN BlockRaises(st)
            ELSE [st EXCEPT !.numerical_mode = tol.mode,
                            !.numerical_margin_value = Some(tol.value),
                            !.numerical_precision_value = None,
                            !.numerical_range_min = None,
                            !.numerical_range_max = None,
                            !.flags = @ \ {"in_prompt"}]
    IN accepted(parse_numerical_tolerance(AfterColon(line)))

\* The Precision: header.
precision_header(st, line) ==
    LET accepted(prec) ==
            IF st.qtype # "NUMERICAL" THEN BlockRaises(st)
            ELSE IF st.numerical_mode \in {"percent_margin", "absolute_margin", "range"}
              THEN BlockRaises(st)
            ELSE IF prec.raised # Null THEN BlockRaises(st)
            ELSE [st EXCEPT !.numerical_mode = prec.mode,
                            !.numerical_precision_value = Some(prec.value),
                            !.numerical_margin_value = None,
                            !.numerical_range_min = None,
                            !.numerical_range_max = None,
                            !.flags = @ \ {"in_prompt"}]
    IN accepted(parse_numerical_precision(AfterColon(line)))

\* The Range: header without the test of numerical_mode.
range_header_merging(st, line) ==
    LET accepted(range) ==
            IF st.qtype # "NUMERICAL" THEN BlockRaises(st)
            ELSE IF range.raised # Null THEN BlockRaises(st)
            ELSE [st EXCEPT !.numerical_mode = "range",
                            !.numerical_range_min = Some(range.min),
                            !.numerical_range_max = Some(range.max),
                            !.numerical_margin_value = None,
                            !.numerical_precision_value = None,
                            !.flags = @ \ {"in_prompt"}]
    IN accepted(parse_numerical_range(AfterColon(line)))

\* The Range: header.
range_header(st, line) ==
    LET accepted(range) ==
            IF st.qtype # "NUMERICAL" THEN BlockRaises(st)
            ELSE IF st.numerical_mode # "exact" THEN BlockRaises(st)
            ELSE IF range.raised # Null THEN BlockRaises(st)
            ELSE [st EXCEPT !.numerical_mode = "range",
                            !.numerical_range_min = Some(range.min),
                            !.numerical_range_max = Some(range.max),
                            !.numerical_margin_value = None,
                            !.numerical_precision_value = None,
                            !.flags = @ \ {"in_prompt"}]
    IN accepted(parse_numerical_range(AfterColon(line)))

\* A list line of the collection that is active, by the order of the tests.
collect_line(st, raw, line) ==
    LET choice(c) ==
            IF c = None THEN BlockRaises(st) ELSE [st EXCEPT !.choices = Append(@, Get(c))]
        pair(a) ==
            IF a = None THEN BlockRaises(st)
            ELSE [st EXCEPT !.pairs =
                    Append(@, MatchingPair(sanitize_text(Get(a)[1]), sanitize_text(Get(a)[2])))]
        variant(d) ==
            IF d = None THEN BlockRaises(st)
            ELSE [st EXCEPT !.variants = Append(@, sanitize_text(Get(d)))]
        ordering_item(n) ==
            IF n = None THEN BlockRaises(st)
            ELSE [st EXCEPT !.ordering_items = Append(@, sanitize_text(Get(n)))]
        category(d) ==
            IF d = None THEN BlockRaises(st)
            ELSE [st EXCEPT !.categories = Append(@, sanitize_text(Get(d)))]
        category_item(a) ==
            IF a = None THEN BlockRaises(st)
            ELSE [st EXCEPT !.category_items =
                    Append(@, CategoryMapping(sanitize_text(Get(a)[1]),
                                              sanitize_text(Get(a)[2])))]
        distractor(d) ==
            IF d = None THEN BlockRaises(st)
            ELSE [st EXCEPT !.distractors = Append(@, sanitize_text(Get(d)))]
    IN IF "in_prompt" \in st.flags THEN [st EXCEPT !.prompt_lines = Append(@, raw)]
       ELSE IF "in_choices" \in st.flags THEN choice(choice_line(line))
       ELSE IF "in_pairs" \in st.flags THEN pair(arrow_line(line))
       ELSE IF "in_accept" \in st.flags THEN variant(dash_item(line))
       ELSE IF "in_ordering_items" \in st.flags THEN ordering_item(numbered_line(line))
       ELSE IF "in_categories" \in st.flags THEN category(dash_item(line))
       ELSE IF "in_category_items" \in st.flags THEN category_item(arrow_line(line))
       ELSE IF "in_distractors" \in st.flags THEN distractor(dash_item(line))
       ELSE st

\* Mutation of the Type: header: the collection flags are left as they are.
type_header_keeping_flags(st, value) == [st EXCEPT !.qtype = Upper(value)]

\* A Type: line: the type is taken and every collection flag is cleared.
type_header(st, value) == [st EXCEPT !.qtype = Upper(value), !.flags = {}]

\* One turn of the loop of _parse_block over the lines of the block.
block_line(st, raw) ==
    LET points_of(number) == IF number[1] THEN number[2] ELSE 10
        headed(line, lowered, value) ==
            LET is(header) == StartsWith(lowered, header)
            IN IF st.raised # Null THEN st
               ELSE IF line = ""
                 THEN IF "in_prompt" \in st.flags
                        THEN [st EXCEPT !.prompt_lines = Append(@, "")]
                      ELSE st
               ELSE IF is("type:") THEN type_header(st, value)
               ELSE IF is("points:")
                 THEN [st EXCEPT !.points = Some(points_of(FloatOf(value))),
                                 !.points_explicit = TRUE]
               ELSE IF is("prompt:")
                 THEN [st EXCEPT !.flags = {"in_prompt"},
                                 !.prompt_lines = IF value # "" THEN Append(@, value) ELSE @]
               ELSE IF is("header:") THEN [st EXCEPT !.ordering_header = value]
               ELSE IF is("items:")
                 THEN IF st.qtype = "ORDERING"
                        THEN [st EXCEPT !.flags = (@ \cap {"in_category_items"})
                                                    \cup {"in_ordering_items"}]
                      ELSE IF st.qtype = "CATEGORIZATION"
                        THEN [st EXCEPT !.flags = {"in_category_items"}]
                      ELSE st
               ELSE IF is("categories:") THEN [st EXCEPT !.flags = {"in_categories"}]
               ELSE IF is("distractors:") THEN [st EXCEPT !.flags = {"in_distractors"}]
               ELSE IF is("choices:") THEN [st EXCEPT !.flags = {"in_choices"}]
               ELSE IF is("pairs:") THEN [st EXCEPT !.flags = {"in_pairs"}]
               ELSE IF is("accept:") \/ is("answers:") THEN [st EXCEPT !.flags = {"in_accept"}]
               ELSE IF is("answer:") THEN answer_header(st, line)
               ELSE IF is("tolerance:") THEN tolerance_header(st, line)
               ELSE IF is("precision:") THEN precision_header(st, line)
               ELSE IF is("range:") THEN range_header(st, line)
               ELSE collect_line(st, raw, line)
        stripped(line) == headed(line, Lower(line), AfterColon(line))
    IN stripped(Strip(raw))

RECURSIVE block_lines(_, _)
block_lines(st, lines) ==
    IF lines = <<>> THEN st ELSE block_lines(block_line(st, Head(lines)), Tail(lines))

\* "\n".join(lines)
RECURSIVE JoinLines(_)
JoinLines(lines) ==
    IF lines = <<>> THEN ""
    ELSE IF Len(lines) = 1 THEN lines[1]
    ELSE lines[1] \o "\n" \o JoinLines(Tail(lines))

\* The token uuid4().hex of a FITB blank; its value is never compared.
BLANK_TOKEN == "token"

STIMULUS_END_TYPES == {"ENDSTIMULUS", "END_STIMULUS", "STIMULUS_END", "UNLINK", "DETACH"}

ParsedQuestion(q) == [raised |-> Null, question |-> Some(q)]

\* The end of _parse_block: the question built from the fields collected.
block_question(st) ==
    LET points_value == IF st.points # None THEN Get(st.points) ELSE 10
        scored(q) == [q EXCEPT !.points = points_value, !.points_set = st.points_explicit]
        cleaned == [k \in 1..Len(st.choices) |->
                      MCChoice(sanitize_text(st.choices[k].text), st.choices[k].correct)]
        display_token == "[" \o BLANK_TOKEN \o "]"
        replaced(prompt) ==
            IF Contains(prompt, "[blank]") THEN Replace(prompt, "[blank]", display_token)
            ELSE prompt \o " [ " \o display_token \o " ]"
        validated(prompt, answer_spec) ==
            IF NumericalAnswer_validate(answer_spec) # <<>> THEN Raised("ValueError")
            ELSE ParsedQuestion(scored(NumericalQuestion(prompt, answer_spec)))
        numerical(prompt, resolved) ==
            IF resolved.raised # Null THEN Raised("ValueError")
            ELSE validated(prompt,
                           NumericalAnswer(st.numerical_answer_value, st.numerical_mode,
                                           st.numerical_margin_value, st.numerical_range_min,
                                           st.numerical_range_max,
                                           st.numerical_precision_value,
                                           Some(resolved.lower), Some(resolved.upper),
                                           resolved.strict_lower))
        built(prompt) ==
            IF st.qtype = Null \/ st.qtype = "" THEN [raised |-> Null, question |-> None]
            ELSE IF st.qtype \in STIMULUS_END_TYPES THEN ParsedQuestion(StimulusEnd(""))
            ELSE IF st.qtype = "MC"
              THEN IF Len(st.choices) < 2 \/ Len(st.choices) > 7 THEN Raised("ValueError")
                   ELSE IF CorrectCount(st.choices) # 1 THEN Raised("ValueError")
                   ELSE ParsedQuestion(scored(MCQuestion(prompt, cleaned)))
            ELSE IF st.qtype = "TF"
              THEN IF st.tf_answer = None THEN Raised("ValueError")
                   ELSE ParsedQuestion(scored(TFQuestion(prompt, Get(st.tf_answer))))
            ELSE IF st.qtype = "MA"
              THEN IF Len(st.choices) < 2 THEN Raised("ValueError")
                   ELSE IF CorrectCount(st.choices) < 1 THEN Raised("ValueError")
                   ELSE ParsedQuestion(scored(MAQuestion(prompt, cleaned)))
            ELSE IF st.qtype = "NUMERICAL"
              THEN numerical(prompt,
                             resolve_numerical_bounds(
                                 st.numerical_answer_value, st.numerical_mode,
                                 st.numerical_margin_value, st.numerical_range_min,
                                 st.numerical_range_max, st.numerical_precision_value))
            ELSE IF st.qtype = "MATCHING"
              THEN IF Len(st.pairs) < 2 THEN Raised("ValueError")
                   ELSE ParsedQuestion(scored(MatchingQuestion(prompt, st.pairs)))
            ELSE IF st.qtype = "FITB"
              THEN IF st.variants = <<>> THEN Raised("ValueError")
                   ELSE ParsedQuestion(scored(FITBQuestion(replaced(prompt), st.variants,
                                                           "open_entry", <<>>, <<>>,
                                                           <<BLANK_TOKEN>>)))
            ELSE IF st.qtype \in {"ESSAY", "FILEUPLOAD"}
              THEN ParsedQuestion(scored(Question(st.qtype, prompt)))
            ELSE IF st.qtype = "STIMULUS" THEN ParsedQuestion(StimulusItem(prompt))
            ELSE IF st.qtype = "ORDERING"
              THEN IF Len(st.ordering_items) < 2 THEN Raised("ValueError")
                   ELSE ParsedQuestion(scored(OrderingQuestion(prompt, st.ordering_items,
                                                               st.ordering_header)))
            ELSE IF st.qtype = "CATEGORIZATION"
              THEN IF Len(st.categories) < 2 THEN Raised("ValueError")
                   ELSE IF Len(st.category_items) < 1 THEN Raised("ValueError")
                   ELSE ParsedQuestion(scored(CategorizationQuestion(prompt, st.categories,
                                                                     st.category_items)))
            ELSE Raised("ValueError")
    IN built(sanitize_text(Strip(JoinLines(st.prompt_lines))))

\* _parse_block(lines): the question, None for a block without a type, or
\* the ValueError.
parse_block(lines) ==
    LET ended(st) == IF st.raised # Null THEN Raised("ValueError") ELSE block_question(st)
    IN ended(block_lines(BlockStart, lines))

-----------------------------------------------------------------------------
(* parse_text and _normalize_points: engine/parsing/text_parser.py.  The  *)
(* rationale section is absent from the texts tried, so                    *)
(* _split_quiz_and_rationales returns the text unchanged.                  *)

\* The default target_total_points of parse_text.
DEFAULT_TARGET_TOTAL == 100

\* The locals of parse_text before its first line.
TextStart ==
    [title |-> Null, target_total_points |-> DEFAULT_TARGET_TOTAL, keep_points |-> FALSE,
     blocks |-> <<>>, current_block |-> <<>>]

\* One iteration of the line loop of parse_text.
text_line(st, raw) ==
    LET total(number) == IF number[1] THEN [st EXCEPT !.target_total_points = number[2]] ELSE st
        directive(lowered, value) ==
            IF Strip(raw) = "---"
              THEN IF st.current_block # <<>>
                     THEN [st EXCEPT !.blocks = Append(@, st.current_block),
                                     !.current_block = <<>>]
                     ELSE st
            ELSE IF st.blocks = <<>> /\ st.current_block = <<>> /\ StartsWith(lowered, "title:")
              THEN [st EXCEPT !.title = value]
            ELSE IF st.blocks = <<>> /\ st.current_block = <<>>
                    /\ StartsWith(lowered, "totalpoints:")
              THEN total(FloatOf(value))
            ELSE IF st.blocks = <<>> /\ st.current_block = <<>>
                    /\ StartsWith(lowered, "keeppoints:")
              THEN [st EXCEPT !.keep_points = Lower(value) \in {"true", "t", "1", "yes"}]
            ELSE [st EXCEPT !.current_block = Append(@, raw)]
    IN directive(Lower(raw), AfterColon(raw))

RECURSIVE text_lines(_, _)
text_lines(st, lines) ==
    IF lines = <<>> THEN st ELSE text_lines(text_line(st, Head(lines)), Tail(lines))

\* The directives and the blocks of a text: the line loop and the closing of
\* the last block.
split_blocks(lines) ==
    LET closed(st) ==
            IF st.current_block # <<>>
              THEN [st EXCEPT !.blocks = Append(@, st.current_block), !.current_block = <<>>]
              ELSE st
    IN closed(text_lines(TextStart, lines))

\* The locals of the block loop of parse_text before the first block.
\* `idents` are the values rand8() is still to give, in order.
LoopStart(idents) ==
    [raised |-> Null, idents |-> idents, current_stimulus_ident |-> Null, questions |-> <<>>]

\* One iteration of the block loop in which a stimulus end leaves
\* current_stimulus_ident as it is.
parse_step_keeping_scope(acc, block) ==
    LET ident == Head(acc.idents)
        added(parsed) ==
            LET q == Get(parsed.question)
            IN IF parsed.raised # Null THEN [acc EXCEPT !.raised = "ValueError"]
               ELSE IF parsed.question = None THEN acc
               ELSE IF q.qtype = "STIMULUS_END" THEN acc
               ELSE IF q.qtype = "STIMULUS"
                 THEN [acc EXCEPT !.idents = Tail(@),
                                  !.current_stimulus_ident = ident,
                                  !.questions =
                                      Append(@, With(With([q EXCEPT !.points = 0],
                                                          "forced_ident", ident),
                                                     "parent_stimulus_ident", Null))]
               ELSE [acc EXCEPT !.questions =
                                    Append(@, With(With(q, "forced_ident", Null),
                                                   "parent_stimulus_ident",
                                                   acc.current_stimulus_ident))]
    IN IF acc.raised # Null THEN acc ELSE added(parse_block(block))

\* One iteration of the block loop of parse_text.
parse_step(acc, block) ==
    LET ident == Head(acc.idents)
        added(parsed) ==
            LET q == Get(parsed.question)
            IN IF parsed.raised # Null THEN [acc EXCEPT !.raised = "ValueError"]
               ELSE IF parsed.question = None THEN acc
               ELSE IF q.qtype = "STIMULUS_END"
                 THEN [acc EXCEPT !.current_stimulus_ident = Null]
               ELSE IF q.qtype = "STIMULUS"
                 THEN [acc EXCEPT !.idents = Tail(@),
                                  !.current_stimulus_ident = ident,
                                  !.questions =
                                      Append(@, With(With([q EXCEPT !.points = 0],
                                                          "forced_ident", ident),
                                                     "parent_stimulus_ident", Null))]
               ELSE [acc EXCEPT !.questions =
                                    Append(@, With(With(q, "forced_ident", Null),
                                                   "parent_stimulus_ident",
                                                   acc.current_stimulus_ident))]
    IN IF acc.raised # Null THEN acc ELSE added(parse_block(block))

\* The block loop of parse_text.
RECURSIVE parse_blocks(_, _)
parse_blocks(acc, blocks) ==
    IF blocks = <<>> THEN acc ELSE parse_blocks(parse_step(acc, Head(blocks)), Tail(blocks))

\* rank_add(i) sorts certainly before rank_add(j).  The raw values are the
\* floats num[.] / den (den > 0), and frac = raw - rounded.  Fractions that
\* differ as exact numbers differ the same way as floats.  Raw values that
\* are equal as exact numbers have equal numerators, hence are the same
\* float, and then the next multiple of five (the same for both) and the
\* index decide.  Fractions of different raw values that are equal as exact
\* numbers differ in the last bits of the floats, in a direction the model
\* does not compute: neither is certain to sort first.
rank_add_less(num, den, rounded, i, j) ==
    LET frac(k) == num[k] - rounded[k] * den
    IN \/ frac(i) > frac(j)
       \/ frac(i) = frac(j) /\ num[i] = num[j] /\ i < j

\* rank_sub(i) sorts certainly before rank_sub(j), frac = rounded - raw.
rank_sub_less(num, den, rounded, i, j) ==
    LET frac(k) == rounded[k] * den - num[k]
    IN \/ frac(i) > frac(j)
       \/ frac(i) = frac(j) /\ num[i] = num[j] /\ i < j

\* The sets of `count` indices that indices.sort(key=...) can put first
\* among `among`.
FirstSorted(among, count, less(_, _)) ==
    {S \in SUBSET among :
       /\ Cardinality(S) = count
       /\ \A i \in S : \A j \in among \ S : ~less(j, i)}

\* The while loop of _normalize_points, one sorted pass per step: the
\* outcomes it can have.  A pass that subtracts nothing leaves diff and
\* rounded as they were, so the loop never ends: `hangs`.
RECURSIVE adjust(_, _, _, _)
adjust(num, den, rounded, diff) ==
    LET n == Len(rounded)
        able == {i \in 1..n : rounded[i] > 1}
        add_less(i, j) == rank_add_less(num, den, rounded, i, j)
        sub_less(i, j) == rank_sub_less(num, den, rounded, i, j)
        added == IF diff < n THEN diff ELSE n
        subtracted == IF -diff < Cardinality(able) THEN -diff ELSE Cardinality(able)
    IN IF diff = 0 THEN {[hangs |-> FALSE, rounded |-> rounded]}
       ELSE IF diff > 0
         THEN UNION {adjust(num, den,
                            [i \in 1..n |-> IF i \in S THEN rounded[i] + 1 ELSE rounded[i]],
                            diff - added) :
                       S \in FirstSorted(1..n, added, add_less)}
       ELSE IF able = {} THEN {[hangs |-> TRUE, rounded |-> rounded]}
       ELSE UNION {adjust(num, den,
                          [i \in 1..n |-> IF i \in S THEN rounded[i] - 1 ELSE rounded[i]],
                          diff + subtracted) :
                     S \in FirstSorted(able, subtracted, sub_less)}

\* _normalize_points(questions, target_total) on the list of the points
\* (none negative) for a whole target_total: the outcomes it can have, each
\* the new points or `hangs` when the call never returns.  The raw values
\* are kept as numerators over one denominator.
normalize_points(points, target_total) ==
    LET n == Len(points)
        current_total == SumSeq([i \in 1..n |-> IF points[i] > 0 THEN points[i] ELSE 0])
        den == IF current_total <= 0 THEN n ELSE current_total
        num == [i \in 1..n |->
                  IF current_total <= 0 THEN target_total ELSE points[i] * target_total]
        rounded == [i \in 1..n |-> RoundHalfEven(num[i], den)]
        diff == target_total - SumSeq(rounded)
    IN adjust(num, den, rounded, diff)

\* parse_text(content) for the lines of a text: the outcomes it can have,
\* each the questions of the quiz, the ValueError, or `hangs`.
parse_text(lines, idents) ==
    LET result(qs) == [raised |-> Null, hangs |-> FALSE, questions |-> qs]
        updated(quiz_qs, scorable, order, r) ==
            [i \in 1..Len(quiz_qs) |->
               IF i \in scorable
                 THEN [quiz_qs[i] EXCEPT !.points = r.rounded[RankIn(order, i)]]
                 ELSE quiz_qs[i]]
        normalized(quiz_qs, scorable, order, target_total_points) ==
            {IF r.hangs THEN [raised |-> Null, hangs |-> TRUE]
             ELSE result(updated(quiz_qs, scorable, order, r)) :
               r \in normalize_points([k \in 1..Len(order) |-> quiz_qs[order[k]].points],
                                      target_total_points)}
        scored(st, quiz_qs, scorable) ==
            IF scorable = {} \/ st.keep_points THEN {result(quiz_qs)}
            ELSE normalized(quiz_qs, scorable, SortedIndices(scorable), st.target_total_points)
        parsed_blocks(st, parsed) ==
            IF parsed.raised # Null THEN {[raised |-> "ValueError", hangs |-> FALSE]}
            ELSE IF parsed.questions = <<>> THEN {[raised |-> "ValueError", hangs |-> FALSE]}
            ELSE scored(st, parsed.questions,
                        {i \in 1..Len(parsed.questions) :
                           parsed.questions[i].qtype # "STIMULUS"})
        split(st) == parsed_blocks(st, parse_blocks(LoopStart(idents), st.blocks))
    IN split(split_blocks(lines))

-----------------------------------------------------------------------------
(* SpecImport: TextImporter.import_quiz and JsonImporter.import_quiz        *)
(* applied to small texts and payloads                                      *)

\* The most blocks of a text, and the most lines after Type: and Prompt: in
\* a numerical block.
MaxBlocks == 3
MaxNumericLines == 3

ESSAY_BLOCK == <<"Type: ESSAY", "Prompt: q">>
TF_BLOCK == <<"Type: TF", "Prompt: t", "Answer: true", "Points: 3">>
STIMULUS_BLOCK == <<"Type: STIMULUS", "Prompt: s">>
STIMULUS_END_BLOCK == <<"Type: STIMULUS_END">>
NO_TYPE_BLOCK == <<"Prompt: p", "Points: 3">>
UNKNOWN_TYPE_BLOCK == <<"Type: FOO", "Prompt: p">>

TextBlocks == {ESSAY_BLOCK, TF_BLOCK, STIMULUS_BLOCK, STIMULUS_END_BLOCK, NO_TYPE_BLOCK}

NumericLines == {"Answer: 5", "Tolerance: 1", "Precision: 2 dp", "Range: 1 to 9", "a note"}

NumericLineLists ==
    {ls \in SeqsUpTo(NumericLines, MaxNumericLines) :
       \A i, j \in 1..Len(ls) : i # j => ls[i] # ls[j]}

\* Numerical blocks, with the type declared before or after the other lines.
NumericBlocks ==
    {<<"Type: NUMERICAL", "Prompt: p">> \o ls : ls \in NumericLineLists}
    \cup {<<"Prompt: p">> \o ls \o <<"Type: NUMERICAL">> : ls \in NumericLineLists}

TextHeads == {<<>>, <<"TotalPoints: 2">>, <<"TotalPoints: 2", "KeepPoints: yes">>}

RECURSIVE JoinBlocks(_)
JoinBlocks(bs) == IF bs = <<>> THEN <<>> ELSE <<"---">> \o Head(bs) \o JoinBlocks(Tail(bs))

\* Directive lines, an empty line and a line of free text, in any order
\* before the first separator of a one-question text.
MaxHeadLines == 2

HeadLines == {"Title: T", "TotalPoints: 50", "KeepPoints: yes", "", "Note"}

DirectiveTexts ==
    {head \o JoinBlocks(<<ESSAY_BLOCK>>) : head \in SeqsUpTo(HeadLines, MaxHeadLines) \ {<<>>}}

ImportTexts ==
    {head \o JoinBlocks(bs) : head \in TextHeads, bs \in SeqsUpTo(TextBlocks, MaxBlocks) \ {<<>>}}
    \cup {JoinBlocks(<<b>>) : b \in NumericBlocks \cup {UNKNOWN_TYPE_BLOCK}}
    \cup DirectiveTexts

\* The values rand8() can give (two, so that two stimuli can get different
\* or equal identifiers).
StimIdents == {"stim_a", "stim_b"}

NumericalModes ==
    {"exact", "percent_margin", "absolute_margin", "range", "significant_digits",
     "decimal_places"}

\* Numerical items with every combination of answer, value, min and max
\* present or absent.
NumericalItems ==
    {LET base == [type |-> "NUMERICAL", prompt |-> "Q"]
         ev0 == [mode |-> mode]
         ev1 == IF "value" \in has THEN With(ev0, "value", JNum(2, 0)) ELSE ev0
         ev2 == IF "min" \in has THEN With(ev1, "min", JNum(1, 0)) ELSE ev1
         ev3 == IF "max" \in has THEN With(ev2, "max", JNum(9, 0)) ELSE ev2
         item == With(base, "evaluation", ev3)
     IN IF "answer" \in has THEN With(item, "answer", JNum(5, 0)) ELSE item :
       mode \in NumericalModes, has \in SUBSET {"answer", "value", "min", "max"}}

ESSAY_IN_GROUP == [type |-> "ESSAY", prompt |-> "Q", stimulus_id |-> "stim_a"]
ESSAY_PLAIN == [type |-> "ESSAY", prompt |-> "Q", points |-> 7]

GroupItems == {ESSAY_IN_GROUP, ESSAY_PLAIN, STIMULUS_END_ITEM, STIMULUS_ITEM}

\* Payloads with an item that is not a JSON object.
ScalarItemPayloads ==
    {<<JNum(5, 0)>>, <<JStr("x"), JNull>>, <<JNum(5, 0), ESSAY_PLAIN>>,
     <<STIMULUS_END_ITEM, JBool(TRUE)>>}

ImportPayloads ==
    {<<item>> : item \in NumericalItems} \cup (SeqsUpTo(GroupItems, MaxBlocks) \ {<<>>})
      \cup ScalarItemPayloads

InitImport ==
    /\ pc = "import_start"
    /\ \/ entry = "TextImporter.import_quiz" /\ input \in ImportTexts
       \/ entry = "JsonImporter.import_quiz" /\ input \in ImportPayloads
    /\ questions = <<>>
    /\ raised = Null
    /\ total_points = Unused /\ errors = Unused /\ bounds = Unused /\ calls = Unused
    /\ status = Unused /\ warnings = Unused /\ xml = Unused /\ zip = Unused
    /\ physical = Unused /\ fail_prompt = Unused

\* The lines that declare a stimulus: rand8() is called at most once for
\* each.
StimulusLines(lines) ==
    {i \in 1..Len(lines) :
       /\ StartsWith(Lower(Strip(lines[i])), "type:")
       /\ Upper(AfterColon(Strip(lines[i]))) = "STIMULUS"}

\* TextImporter.import_quiz(raw_spec): the quiz of parse_text, its
\* ValueError, or the entry into the loop of _normalize_points that never
\* ends.
TextImport ==
    /\ pc = "import_start"
    /\ entry = "TextImporter.import_quiz"
    /\ \E idents \in [1..Cardinality(StimulusLines(input)) -> StimIdents] :
         \E r \in parse_text(input, idents) :
           IF r.raised # Null
             THEN raised' = r.raised /\ pc' = "import_raised" /\ UNCHANGED questions
           ELSE IF r.hangs
             THEN pc' = "normalize_loop" /\ UNCHANGED <<questions, raised>>
           ELSE questions' = r.questions /\ pc' = "import_done" /\ UNCHANGED raised
    /\ UNCHANGED <<total_points, input, errors, bounds, entry, calls, status, warnings, xml,
                   zip, physical, fail_prompt>>

\* One more pass of `while diff != 0 and indices` that changes nothing.
NormalizeLoop ==
    /\ pc = "normalize_loop"
    /\ UNCHANGED vars

\* JsonImporter.import_quiz(raw_spec)
JsonImport ==
    /\ pc = "import_start"
    /\ entry = "JsonImporter.import_quiz"
    /\ LET r == import_quiz_from_llm(input)
       IN IF r.raised # Null
            THEN raised' = r.raised /\ pc' = "import_raised" /\ UNCHANGED questions
            ELSE questions' = r.questions /\ pc' = "import_done" /\ UNCHANGED raised
    /\ UNCHANGED <<total_points, input, errors, bounds, entry, calls, status, warnings, xml,
                   zip, physical, fail_prompt>>

NextImport == TextImport \/ NormalizeLoop \/ JsonImport

SpecImport == InitImport /\ [][NextImport]_vars

-----------------------------------------------------------------------------
(* C11: while one NUMERICAL block is parsed, header lines for two different *)
(* fields among Tolerance:, Precision: and Range:, in any order and with    *)
(* any other lines between them, make parsing raise an error; no question   *)
(* is produced from the block and the settings are never merged.            *)

TextRun == entry = "TextImporter.import_quiz"

JsonRun == entry = "JsonImporter.import_quiz"

Imported == pc # "import_start"

\* The lines of a text that start with a header, whatever their case and
\* indentation.
HeaderLines(lines, header) ==
    {i \in 1..Len(lines) : StartsWith(Lower(Strip(lines[i])), header)}

\* The type a one-block text declares, Null when it declares none.
DeclaredType(lines) ==
    LET types == HeaderLines(lines, "type:")
    IN IF types = {} THEN Null
       ELSE Upper(AfterColon(Strip(lines[CHOOSE i \in types : \A j \in types : j <= i])))

\* The fields among Tolerance:, Precision: and Range: a text has headers for.
NumericFields(lines) ==
    {f \in {"tolerance:", "precision:", "range:"} : HeaderLines(lines, f) # {}}

OneBlock(lines) == HeaderLines(lines, "---") = {1}

C11_ConflictingFieldsRaise ==
    (/\ TextRun
     /\ Imported
     /\ OneBlock(input)
     /\ DeclaredType(input) = "NUMERICAL"
     /\ Cardinality(NumericFields(input)) >= 2)
    => (pc = "import_raised" /\ raised = "ValueError" /\ questions = <<>>)

\* A numerical block with an answer, a tolerance, another line and a range
\* has been rejected.
C11_Witness ==
    /\ TextRun
    /\ pc = "import_raised"
    /\ input = <<"---", "Type: NUMERICAL", "Prompt: p", "Tolerance: 1", "a note",
                 "Range: 1 to 9">>

-----------------------------------------------------------------------------
(* C12: when the selected tolerance mode of a numerical question lacks a    *)
(* required field (the answer for the modes other than range, the margin    *)
(* for the margin modes, the precision for the precision modes, min or max  *)
(* for the range mode), importing the question fails with an error, in the  *)
(* text importer and in the JSON importer; the bounds are never filled in   *)
(* with default values.                                                     *)

\* The required fields a mode lacks among the fields given.
RequiredMissing(mode, given) ==
    CASE mode = "range" -> ~({"min", "max"} \subseteq given)
      [] mode \in {"percent_margin", "absolute_margin"} -> ~({"answer", "margin"} \subseteq given)
      [] mode \in {"significant_digits", "decimal_places"} ->
           ~({"answer", "precision"} \subseteq given)
      [] OTHER -> "answer" \notin given

\* A one-block numerical text with at most one of Tolerance:, Precision: and
\* Range: selects the mode of that header, which carries its own values; the
\* answer is given by an Answer: line.
TextMode(lines) ==
    IF HeaderLines(lines, "tolerance:") # {} THEN "absolute_margin"
    ELSE IF HeaderLines(lines, "precision:") # {} THEN "decimal_places"
    ELSE IF HeaderLines(lines, "range:") # {} THEN "range"
    ELSE "exact"

TextGiven(lines) ==
    (IF HeaderLines(lines, "answer:") # {} THEN {"answer"} ELSE {})
    \cup (IF HeaderLines(lines, "tolerance:") # {} THEN {"margin"} ELSE {})
    \cup (IF HeaderLines(lines, "precision:") # {} THEN {"precision"} ELSE {})
    \cup (IF HeaderLines(lines, "range:") # {} THEN {"min", "max"} ELSE {})

\* A one-item numerical payload: the mode of its evaluation and the fields
\* it gives (`value` is the margin or the precision of the mode).
IsNumericalPayload(items) ==
    Len(items) = 1 /\ IsDict(items[1]) /\ GetKey(items[1], "type", Null) = "NUMERICAL"

JsonMode(item) == GetKey(GetKey(item, "evaluation", EmptyDict), "mode", "exact")

JsonGiven(item) ==
    LET evaluation == GetKey(item, "evaluation", EmptyDict)
    IN (IF "answer" \in DOMAIN item THEN {"answer"} ELSE {})
       \cup (IF "value" \in DOMAIN evaluation THEN {"margin", "precision"} ELSE {})
       \cup (DOMAIN evaluation \cap {"min", "max"})

LacksRequiredField ==
    \/ /\ TextRun
       /\ OneBlock(input)
       /\ DeclaredType(input) = "NUMERICAL"
       /\ RequiredMissing(TextMode(input), TextGiven(input))
    \/ /\ JsonRun
       /\ IsNumericalPayload(input)
       /\ RequiredMissing(JsonMode(input[1]), JsonGiven(input[1]))

C12_MissingFieldRaises == (Imported /\ LacksRequiredField) => pc = "import_raised"

-----------------------------------------------------------------------------
(* C13: parsing a block whose Type: is unknown or absent raises a parse     *)
(* error; such a block is never silently dropped from the quiz.             *)

KnownTypes ==
    {"MC", "TF", "MA", "NUMERICAL", "MATCHING", "FITB", "ESSAY", "FILEUPLOAD", "STIMULUS",
     "ORDERING", "CATEGORIZATION"} \cup STIMULUS_END_TYPES

\* The blocks of a text whose type is absent or unknown.
UntypedBlocks(lines) ==
    LET blocks == split_blocks(lines).blocks
    IN {b \in 1..Len(blocks) : DeclaredType(blocks[b]) \notin KnownTypes}

C13_UntypedBlocksRaise ==
    (TextRun /\ Imported /\ UntypedBlocks(input) # {}) => pc = "import_raised"

-----------------------------------------------------------------------------
(* C14: in a parsed quiz every non-stimulus question that follows a         *)
(* STIMULUS block with no STIMULUS_END block in between has                 *)
(* parent_stimulus_ident equal to the identifier of the most recent         *)
(* preceding STIMULUS, and every question outside such a scope (before any  *)
(* stimulus, or after a STIMULUS_END and before the next STIMULUS) has no   *)
(* parent stimulus.                                                         *)

\* The stimulus whose scope position b of a list of types lies in, 0 when it
\* lies in none.
OpeningStimulus(types, b) ==
    LET starts == {j \in 1..(b - 1) : types[j] = "STIMULUS"}
        last == CHOOSE j \in starts : \A k \in starts : k <= j
    IN IF starts = {} THEN 0
       ELSE IF \E e \in (last + 1)..(b - 1) : types[e] \in STIMULUS_END_TYPES THEN 0
       ELSE last

\* The types of the blocks of a text, and the blocks that have a question in
\* the quiz, in order: the typed blocks that are no stimulus end.
BlockTypes(lines) ==
    LET blocks == split_blocks(lines).blocks
    IN [b \in 1..Len(blocks) |-> DeclaredType(blocks[b])]

QuestionBlocks(lines) ==
    SortedIndices({b \in 1..Len(BlockTypes(lines)) :
                     BlockTypes(lines)[b] \in KnownTypes \ STIMULUS_END_TYPES})

\* The parent the scopes of a text give the k-th question of its quiz.
TextScopeParent(k) ==
    LET order == QuestionBlocks(input)
        s == OpeningStimulus(BlockTypes(input), order[k])
    IN IF s = 0 THEN Null ELSE questions[RankIn(order, s)].forced_ident

\* The parent the scopes of a payload give the question of its k-th item.
JsonScopeParent(k) ==
    LET s == OpeningStimulus([i \in 1..Len(input) |-> input[i].type], k)
    IN IF s = 0 THEN Null ELSE questions[s].forced_ident

NonStimulus(k) == questions[k].qtype \notin {"STIMULUS", "STIMULUS_END"}

-----------------------------------------------------------------------------
(* SpecPasses: an import followed by point allocation, point normalization *)
(* and validation in any order                                              *)

\* The most passes after the import.
MaxPasses == 2

STIMULUS_BLOCK_5 == <<"Type: STIMULUS", "Prompt: s", "Points: 5">>

PassBlocks == {ESSAY_BLOCK, TF_BLOCK, STIMULUS_BLOCK_5, STIMULUS_END_BLOCK}

PassTexts ==
    {head \o JoinBlocks(bs) :
       head \in {<<>>, <<"TotalPoints: 10">>}, bs \in SeqsUpTo(PassBlocks, MaxBlocks) \ {<<>>}}

PassPayloads == SeqsUpTo({ESSAY_PLAIN, TF_YES, STIMULUS_END_ITEM, STIMULUS_ITEM}, MaxBlocks) \ {<<>>}

PassTargets == {10, DEFAULT_QUIZ_POINTS}

InitPasses ==
    /\ pc = "import_start"
    /\ \/ entry = "TextImporter.import_quiz" /\ input \in PassTexts
       \/ entry = "JsonImporter.import_quiz" /\ input \in PassPayloads
    /\ questions = <<>>
    /\ raised = Null
    /\ calls = <<>>
    /\ total_points = Unused /\ errors = Unused /\ bounds = Unused
    /\ status = Unused /\ warnings = Unused /\ xml = Unused /\ zip = Unused
    /\ physical = Unused /\ fail_prompt = Unused

PassReady == pc = "import_done" /\ Len(calls) < MaxPasses

PassFrame ==
    UNCHANGED <<pc, total_points, input, errors, bounds, entry, status, warnings, xml, zip,
                raised, physical, fail_prompt>>

\* calculate_points(quiz.questions, total_points)
CalculatePointsPass ==
    /\ PassReady
    /\ \E total \in PassTargets : questions' \in CalculatePoints(questions, total)
    /\ calls' = Append(calls, "calculate_points")
    /\ PassFrame

\* PointNormalizer().normalize(quiz)
NormalizePass ==
    /\ PassReady
    /\ questions' = PointNormalizer_normalize(questions)
    /\ calls' = Append(calls, "PointNormalizer.normalize")
    /\ PassFrame

\* QuizValidator().validate(quiz): the quiz of the result.
ValidatePass ==
    /\ PassReady
    /\ \E r \in validate(questions) : questions' = r.quiz
    /\ calls' = Append(calls, "QuizValidator.validate")
    /\ PassFrame

NextPasses == TextImport \/ JsonImport \/ CalculatePointsPass \/ NormalizePass \/ ValidatePass

SpecPasses == InitPasses /\ [][NextPasses]_vars

-----------------------------------------------------------------------------
(* C15: after any sequence of importing, point allocation                   *)
(* (calculate_points), point normalization and validation, every Stimulus   *)
(* and StimulusEnd item of the quiz has points equal to 0, and no           *)
(* point-assigning pass ever changes the points of such an item.            *)

StimulusPointsZero(qs) == \A k \in 1..Len(qs) : IsStimulus(qs[k]) => qs[k].points = 0

\* A pass keeps the list, its stimulus items and their points.
StimulusKept(before, after) ==
    /\ Len(after) = Len(before)
    /\ \A k \in 1..Len(before) :
         IsStimulus(before[k]) => IsStimulus(after[k]) /\ after[k].points = before[k].points

StimulusStep ==
    /\ StimulusPointsZero(questions')
    /\ pc = "import_done" => StimulusKept(questions, questions')

C15_StimulusPointsStayZero == [][StimulusStep]_vars

\* A quiz with a stimulus and a scored question has gone through point
\* allocation and validation.
C15_Witness ==
    /\ calls = <<"calculate_points", "QuizValidator.validate">>
    /\ \E k \in 1..Len(questions) : questions[k].qtype = "STIMULUS" /\ questions[k].points = 0
    /\ \E k \in 1..Len(questions) : ~IsStimulus(questions[k]) /\ questions[k].points > 0

-----------------------------------------------------------------------------
(* SpecBalance: balance_answers on quizzes of MC and TF questions *)

\* The most MC questions with two choices, the most with three, and the most
\* TF questions of a quiz.
MaxPairMC == 5
MaxTripleMC == 3
MaxTF == 5

BalancePrompts == <<"q1", "q2", "q3", "q4", "q5", "q6", "q7">>

ChoiceTexts == <<"a", "b", "c", "d">>

\* An MC question of k choices whose only correct choice is at `correct_at`.
OneCorrectMC(prompt, k, correct_at) ==
    MCQuestion(prompt, [i \in 1..k |-> MCChoice(ChoiceTexts[i], i = correct_at)])

\* n MC questions of k choices each, the correct one at the same place in
\* all of them (the bias the shuffle is there to break).
BiasedMCQuiz(n, k, correct_at) == [i \in 1..n |-> OneCorrectMC(BalancePrompts[i], k, correct_at)]

MCQuizzes ==
    {BiasedMCQuiz(n, 2, c) : n \in 1..MaxPairMC, c \in 1..2}
      \cup {BiasedMCQuiz(n, 3, c) : n \in 1..MaxTripleMC, c \in 1..3}

\* TF questions with any answers.
TFQuizzes ==
    {[i \in 1..Len(answers) |-> TFQuestion(BalancePrompts[i], answers[i])] :
       answers \in SeqsUpTo(BOOLEAN, MaxTF) \ {<<>>}}

\* Both classes in one quiz, an essay between them.
MixedQuizzes ==
    {<<tf[1], mc[1], Question("ESSAY", "e"), mc[2], tf[2]>> :
       mc \in {BiasedMCQuiz(2, 2, 1), BiasedMCQuiz(2, 3, 3)},
       tf \in {q \in TFQuizzes : Len(q) = 2}}

\* MC and MA questions whose choice texts name their question.
TaggedChoices(prompt, flags) ==
    [j \in 1..Len(flags) |-> MCChoice(prompt \o ChoiceTexts[j], flags[j])]

TaggedMC(i, flags) == MCQuestion(BalancePrompts[i], TaggedChoices(BalancePrompts[i], flags))

TaggedMA(i, flags) == MAQuestion(BalancePrompts[i], TaggedChoices(BalancePrompts[i], flags))

\* Quizzes of such questions: well-formed MC questions around an MA
\* question and an MC question that may have no correct choice, two of them,
\* or one choice more than the others.
TaggedQuizzes ==
    {<<TaggedMC(1, <<TRUE, FALSE>>), TaggedMA(2, ma), TaggedMC(3, <<FALSE, TRUE>>),
       TaggedMC(4, mc), TaggedMC(5, <<TRUE, FALSE>>)>> :
        ma \in [1..3 -> BOOLEAN],
        mc \in {<<FALSE, FALSE>>, <<TRUE, TRUE>>, <<TRUE, FALSE>>, <<TRUE, FALSE, FALSE>>}}

BalanceQuizzes == MCQuizzes \cup TFQuizzes \cup MixedQuizzes \cup TaggedQuizzes

InitBalance ==
    /\ pc = "balance_answers"
    /\ questions \in BalanceQuizzes
    /\ input = questions
    /\ calls = <<>>
    /\ raised = Null
    /\ total_points = Unused /\ errors = Unused /\ bounds = Unused /\ entry = Unused
    /\ status = Unused /\ warnings = Unused /\ xml = Unused /\ zip = Unused
    /\ physical = Unused /\ fail_prompt = Unused

\* balance_answers(questions)
BalanceAnswers ==
    /\ pc = "balance_answers"
    /\ questions' \in balance_answers(questions)
    /\ calls' = Append(calls, "balance_answers")
    /\ pc' = "balanced"
    /\ UNCHANGED <<total_points, input, errors, bounds, entry, status, warnings, xml,
                   zip, raised, physical, fail_prompt>>

NextBalance == BalanceAnswers

SpecBalance == InitBalance /\ [][NextBalance]_vars

\* The MC questions of the quiz in quiz order and the positions (1-based) of
\* their correct choices.
MCOf(qs) == OfType(qs, "MC")

CorrectPositions(qs) == [i \in 1..Len(MCOf(qs)) |-> FirstCorrect(MCOf(qs)[i].choices)]

SameChoiceCount(qs) == \A i, j \in 1..Len(MCOf(qs)) : Len(MCOf(qs)[i].choices) = Len(MCOf(qs)[j].choices)

OneCorrectEach(qs) ==
    \A i \in 1..Len(MCOf(qs)) :
      Cardinality({c \in 1..Len(MCOf(qs)[i].choices) : MCOf(qs)[i].choices[c].correct}) = 1

\* How many MC questions have their correct choice at position t.
PositionCount(qs, t) == Cardinality({i \in 1..Len(MCOf(qs)) : CorrectPositions(qs)[i] = t})

-----------------------------------------------------------------------------
(* C16: after balance_answers on a quiz whose MC questions all have the     *)
(* same number k of choices and exactly one correct choice each, the        *)
(* numbers of MC questions whose correct choice sits at each of the k       *)
(* positions differ by at most one, for every outcome of the random         *)
(* choices.                                                                 *)

PositionsEven(qs) ==
    \A s, t \in 1..Len(MCOf(qs)[1].choices) :
      PositionCount(qs, s) - PositionCount(qs, t) <= 1

C16_PositionsBalanced ==
    (pc = "balanced" /\ MCOf(input) # <<>> /\ SameChoiceCount(input) /\ OneCorrectEach(input))
      => PositionsEven(questions)

\* Five biased questions of two choices have been spread three to two.
C16_Witness ==
    /\ pc = "balanced"
    /\ input = BiasedMCQuiz(5, 2, 1)
    /\ PositionCount(questions, 1) = 2
    /\ PositionCount(questions, 2) = 3

-----------------------------------------------------------------------------
(* C17: after balance_answers on a quiz whose MC questions all have the     *)
(* same number (at least 2) of choices, no three consecutive MC questions   *)
(* of the quiz, taken in quiz order, have their correct choice at the same  *)
(* position, for every outcome of the random choices.                       *)

NoStreak(qs) ==
    \A i \in 1..(Len(MCOf(qs)) - 2) :
      ~(/\ CorrectPositions(qs)[i] # 0
        /\ CorrectPositions(qs)[i + 1] = CorrectPositions(qs)[i]
        /\ CorrectPositions(qs)[i + 2] = CorrectPositions(qs)[i])

C17_NoThreeInARow ==
    (pc = "balanced" /\ MCOf(input) # <<>> /\ SameChoiceCount(input)
       /\ Len(MCOf(input)[1].choices) >= 2)
      => NoStreak(questions)

-----------------------------------------------------------------------------
(* C18: after balance_answers, the number of TF questions whose answer is   *)
(* True and the number whose answer is False differ by at most one,         *)
(* whatever the initial answers were.                                       *)

TrueCount(qs) == Cardinality({i \in 1..Len(qs) : qs[i].qtype = "TF" /\ qs[i].answer_true})

FalseCount(qs) == Cardinality({i \in 1..Len(qs) : qs[i].qtype = "TF" /\ ~qs[i].answer_true})

C18_TrueFalseEven ==
    pc = "balanced" =>
      /\ TrueCount(questions) - FalseCount(questions) <= 1
      /\ FalseCount(questions) - TrueCount(questions) <= 1

\* The longest quiz of questions that were all True has been split in halves.
C18_Witness ==
    /\ pc = "balanced"
    /\ Len(input) = MaxTF
    /\ TrueCount(input) = MaxTF
    /\ TrueCount(questions) = MaxTF \div 2
    /\ FalseCount(questions) = MaxTF - MaxTF \div 2

-----------------------------------------------------------------------------
(* C19: after the auto-fix pipeline has run on a structurally valid quiz    *)
(* (QuizValidator.validate returned PASS or WEAK_PASS), the points of the   *)
(* scorable questions sum to the quiz's target total (the configured        *)
(* TotalPoints, default 100), whatever points the questions carried before. *)

\* Stated for quizzes with at least one scorable question: a quiz of stimulus
\* items alone has nothing to give points to.
C19_PointsSumToTarget ==
    (pc = "validate_done" /\ status \in {"PASS", "WEAK_PASS"} /\ HasScorable(input))
      => ScorablePointSum(questions) = NORMALIZE_TARGET

-----------------------------------------------------------------------------
(* C20: when KeepPoints is false, after TextOutlineParser.parse_text the    *)
(* points of the scorable questions are integers that sum to exactly the    *)
(* target total (the TotalPoints directive, default 100).                   *)

KeepPoints(lines) == split_blocks(lines).keep_points

TargetTotal(lines) == split_blocks(lines).target_total_points

\* A call of parse_text that does not raise has returned, and the scorable
\* points of its quiz sum to the target.
C20_NormalizedToTarget ==
    (TextRun /\ Imported /\ raised = Null /\ ~KeepPoints(input))
      => /\ pc = "import_done"
         /\ HasScorable(questions) => ScorablePointSum(questions) = TargetTotal(input)

-----------------------------------------------------------------------------
(* SpecRevalidate: QuizValidator.validate applied to an imported quiz and   *)
(* then once more to the quiz it returned.                                  *)

\* The second call: validate(result.quiz) on the quiz the first call
\* returned.  The first result stays in calls, the quiz handed to the second
\* call in input.
Revalidate ==
    /\ pc = "validate_done"
    /\ calls' = <<[status |-> status, quiz |-> questions]>>
    /\ input' = questions
    /\ \E r \in validate(questions) :
         /\ questions' = r.quiz
         /\ status' = r.status
         /\ errors' = r.errors
         /\ warnings' = r.warnings
    /\ pc' = "validate_again"
    /\ UNCHANGED <<total_points, bounds, entry, xml, zip, raised, physical,
                   fail_prompt>>

NextRevalidate == DoValidate \/ Revalidate

SpecRevalidate == InitValidate /\ [][NextRevalidate]_vars

-----------------------------------------------------------------------------
(* C21: running QuizValidator.validate a second time on the quiz returned   *)
(* by a first validate yields the same status and applies no further        *)
(* change: no question's points, choice order, correct flags or TF answer   *)
(* differ after the second run from what they were after the first.         *)

C21_SecondValidateChangesNothing ==
    pc = "validate_again" =>
        /\ status = calls[1].status
        /\ questions = calls[1].quiz

\* What the second run does leave alone: the status and every question's
\* points and TF answer.
C21_StatusAndPointsStable ==
    pc = "validate_again" =>
        /\ status = calls[1].status
        /\ Len(questions) = Len(calls[1].quiz)
        /\ \A i \in 1..Len(questions) :
             /\ questions[i].points = calls[1].quiz[i].points
             /\ questions[i].qtype = "TF" =>
                  questions[i].answer_true = calls[1].quiz[i].answer_true

-----------------------------------------------------------------------------
(* SpecRuns: QuizForgeOrchestrator.process_file run twice on the same input *)
(* text, each run one action from the import to the validation result that *)
(* decides the routing.  `calls` lists the outcomes of the runs so far.     *)

\* What a run leaves behind when the quiz has been imported: the results of
\* validator.validate on the quiz after calculate_points and balance_answers.
process_file_validated(qs) ==
    UNION {validate(balanced) :
             balanced \in UNION {balance_answers(pointed) :
                                   pointed \in CalculatePoints(qs, DEFAULT_QUIZ_POINTS)}}

\* process_file(filepath) on the text of the file: the parse failure that
\* is reported in the fail prompt, or the validation result.
process_file(text) ==
    IF import_quiz_from_llm(text).raised # Null
      THEN {[raised |-> import_quiz_from_llm(text).raised, status |-> Null,
             questions |-> <<>>]}
    ELSE {[raised |-> Null, status |-> r.status, questions |-> r.quiz] :
            r \in process_file_validated(import_quiz_from_llm(text).questions)}

InitRuns ==
    /\ pc = "first_run"
    /\ entry = "process_file"
    /\ input \in Payloads
    /\ questions = <<>>
    /\ total_points = DEFAULT_QUIZ_POINTS
    /\ calls = <<>>
    /\ status = Null
    /\ raised = Null
    /\ errors = Unused /\ warnings = Unused /\ xml = Unused /\ zip = Unused
    /\ physical = Unused /\ fail_prompt = Unused /\ bounds = Unused

\* One run of process_file on the input text.
ProcessFile ==
    /\ pc \in {"first_run", "second_run"}
    /\ \E out \in process_file(input) :
         /\ calls' = Append(calls, out)
         /\ questions' = out.questions
         /\ status' = out.status
         /\ raised' = out.raised
    /\ pc' = IF pc = "first_run" THEN "second_run" ELSE "both_done"
    /\ UNCHANGED <<total_points, input, errors, bounds, entry, warnings, xml, zip,
                   physical, fail_prompt>>

NextRuns == ProcessFile

SpecRuns == InitRuns /\ [][NextRuns]_vars

-----------------------------------------------------------------------------
(* C22: the compile pipeline is deterministic: two runs on the same input   *)
(* text end the same way, either both raising the same error or both        *)
(* producing the same validation status and the same quiz (question points, *)
(* choice order, correct answers).                                          *)

C22_RunsEndTheSameWay ==
    pc = "both_done" =>
        /\ calls[1].raised = calls[2].raised
        /\ calls[1].status = calls[2].status
        /\ calls[1].questions = calls[2].questions

\* What two runs do share: the error or the status, and the number of
\* questions.
C22_SameErrorOrStatus ==
    pc = "both_done" =>
        /\ calls[1].raised = calls[2].raised
        /\ calls[1].status = calls[2].status
        /\ Len(calls[1].questions) = Len(calls[2].questions)

-----------------------------------------------------------------------------
(* C23: for a FillInBlank question in dropdown or word-bank mode,           *)
(* structural validation reports an error unless the options list contains  *)
(* every accepted variant.                                                  *)

ClosedFITB(q) ==
    q.qtype = "FITB" /\ Lower(q.answer_mode) \in {"dropdown", "wordbank"}

\* The options as _validate_fitb compares them: stripped and lower-cased.
OptionsLower(q) == {Lower(Strip(q.options[k])) : k \in 1..Len(q.options)}

VariantsLower(q) == {Lower(Strip(q.variants[k])) : k \in 1..Len(q.variants)}

ErrorAt(i) == \E k \in 1..Len(errors) : errors[k].index = i

C23_ErrorUnlessEveryVariantOffered ==
    pc = "structure_done" =>
        \A i \in 1..Len(input) :
            (ClosedFITB(input[i]) /\ ~(VariantsLower(input[i]) \subseteq OptionsLower(input[i])))
              => ErrorAt(i)

\* What the rule does enforce: a closed-choice question passes only with a
\* non-empty accept list of which at least one variant is offered.
C23_ErrorUnlessSomeVariantOffered ==
    pc = "structure_done" =>
        \A i \in 1..Len(input) :
            (ClosedFITB(input[i])
               /\ (VariantsLower(input[i]) \cap OptionsLower(input[i]) = {}))
              => ErrorAt(i)

-----------------------------------------------------------------------------
(* C24: every Quiz returned by an importer (TextOutlineParser.parse_text or *)
(* the JSON importer) contains at least one question; an input that yields  *)
(* no questions is rejected with an error instead of producing an empty     *)
(* Quiz.                                                                    *)

C24_ImportedQuizIsNotEmpty ==
    pc = "import_done" => questions # <<>>

\* The text importer alone keeps the promise.
C24_ParsedTextIsNotEmpty ==
    (TextRun /\ pc = "import_done") => questions # <<>>

-----------------------------------------------------------------------------
(* SpecFormat: the text functions of html_formatter.py applied to one text  *)
(* under one render_mode.  `input` is the call, `xml` the text returned.    *)

MaxEscapeLen == 3      \* longest text with escapes and backticks tried

EscapeAlphabet == {"a", "n", "\\", BACKTICK, "\n", "\t"}

RECURSIVE EscapeTextsOfLen(_)
EscapeTextsOfLen(n) ==
    IF n = 0 THEN {""} ELSE {s \o c : s \in EscapeTextsOfLen(n - 1), c \in EscapeAlphabet}

\* Texts with backslash escapes, control characters and backticks, matched
\* and unmatched, and a few longer ones with escapes inside code.
EscapeTexts ==
    UNION {EscapeTextsOfLen(n) : n \in 0..MaxEscapeLen}
      \cup {"a\\tb", "'a\\n'\\n", "'''\\n'''\\n", "a\\\\n", "'''\\n"}

\* render_mode as a caller passes it: missing, verbatim, unknown, executable.
RenderModes == {Null, "verbatim", "Verbatim", "markdown", "executable", "EXECUTABLE"}

\* The htmlize functions are modelled in executable mode for single-line
\* texts without escapes, so they are called in that mode on such texts only.
InitFormat ==
    /\ pc = "format_start"
    /\ entry \in {"_clean_text", "htmlize_prompt", "htmlize_choice", "htmlize_item_text"}
    /\ input \in [text : EscapeTexts \cup Texts, render_mode : RenderModes]
    /\ (entry # "_clean_text" /\ effective_mode(input.render_mode) = "executable")
         => input.text \in Texts
    /\ xml = Null
    /\ raised = Null
    /\ questions = Unused /\ total_points = Unused /\ errors = Unused /\ bounds = Unused
    /\ calls = Unused /\ status = Unused /\ warnings = Unused /\ zip = Unused
    /\ physical = Unused /\ fail_prompt = Unused

FormatFrame ==
    /\ pc' = "format_done"
    /\ UNCHANGED <<questions, total_points, input, errors, bounds, entry, calls, status,
                   warnings, zip, physical, fail_prompt>>

\* _clean_text(text, render_mode=render_mode)
CleanText ==
    /\ pc = "format_start"
    /\ entry = "_clean_text"
    /\ xml' = clean_text(input.text, input.render_mode).text
    /\ raised' = clean_text(input.text, input.render_mode).raised
    /\ FormatFrame

\* htmlize_prompt(text, excerpt_numbering=False, render_mode=render_mode)
HtmlizePrompt ==
    /\ pc = "format_start"
    /\ entry = "htmlize_prompt"
    /\ xml' = htmlize_prompt(input.text, input.render_mode)
    /\ UNCHANGED raised
    /\ FormatFrame

\* htmlize_choice(text, render_mode=render_mode)
HtmlizeChoice ==
    /\ pc = "format_start"
    /\ entry = "htmlize_choice"
    /\ xml' = htmlize_choice(input.text, input.render_mode)
    /\ UNCHANGED raised
    /\ FormatFrame

\* htmlize_item_text(text, render_mode=render_mode)
HtmlizeItemText ==
    /\ pc = "format_start"
    /\ entry = "htmlize_item_text"
    /\ xml' = htmlize_item_text(input.text, input.render_mode)
    /\ UNCHANGED raised
    /\ FormatFrame

NextFormat == CleanText \/ HtmlizePrompt \/ HtmlizeChoice \/ HtmlizeItemText

SpecFormat == InitFormat /\ [][NextFormat]_vars

-----------------------------------------------------------------------------
(* C25: in verbatim render mode (the default, and any missing or unknown    *)
(* mode), _clean_text, htmlize_prompt, htmlize_choice and htmlize_item_text *)
(* return their input string unchanged in content and length, for any input *)
(* string including backslash escape sequences, control characters and      *)
(* unmatched backticks.                                                     *)

C25_VerbatimReturnsInput ==
    (pc = "format_done" /\ effective_mode(input.render_mode) # "executable") =>
        /\ raised = Null
        /\ xml = input.text
        /\ Len(xml) = Len(input.text)

\* _clean_text called without a render_mode on a text with an escaped
\* newline and an unmatched backtick has returned it as it was.
C25_Witness ==
    /\ pc = "format_done"
    /\ entry = "_clean_text"
    /\ input = [text |-> "\\n" \o BACKTICK, render_mode |-> Null]
    /\ xml = "\\n" \o BACKTICK
    /\ clean_text_executable(input.text) # input.text

\* The executable mode does change such a text, in _clean_text and in the
\* htmlize functions.
C25_ExecutableChangesText ==
    \/ /\ pc = "format_done" /\ entry = "_clean_text" /\ input.render_mode = "EXECUTABLE"
       /\ input.text = "a\\n" /\ xml = "a\n"
    \/ /\ pc = "format_done" /\ entry = "htmlize_choice" /\ input.render_mode = "executable"
       /\ input.text = "a" /\ xml = "<p>a</p>"

-----------------------------------------------------------------------------
(* The literal _format_decimal writes: numerical_renderer.py.  str(Decimal) *)
(* is computed as decimal.Decimal.__str__ computes it.                      *)

\* str(n) for a natural number
RECURSIVE NatStr(_)
NatStr(n) ==
    IF n < 10 THEN SubSeq("0123456789", n + 1, n + 1)
    ELSE NatStr(n \div 10) \o SubSeq("0123456789", (n % 10) + 1, (n % 10) + 1)

\* '0' * n
RECURSIVE ZeroRun(_)
ZeroRun(n) == IF n <= 0 THEN "" ELSE "0" \o ZeroRun(n - 1)

\* "%+d" % n
SignedStr(n) == IF n < 0 THEN "-" \o NatStr(-n) ELSE "+" \o NatStr(n)

\* str(value) of a finite Decimal: plain notation while the exponent is at
\* most 0 and the value has more than -6 digits left of the point,
\* scientific notation with one digit before the point otherwise.
decimal_str(value) ==
    LET sign == IF value.c < 0 THEN "-" ELSE ""
        written(digits, leftdigits) ==
          LET placed(dotplace) ==
                (IF dotplace <= 0 THEN "0." \o ZeroRun(-dotplace) \o digits
                 ELSE IF dotplace >= Len(digits)
                   THEN digits \o ZeroRun(dotplace - Len(digits))
                 ELSE SubSeq(digits, 1, dotplace) \o "."
                        \o SubSeq(digits, dotplace + 1, Len(digits)))
                \o (IF leftdigits = dotplace THEN ""
                    ELSE "E" \o SignedStr(leftdigits - dotplace))
          IN placed(IF value.e <= 0 /\ leftdigits > -6 THEN leftdigits ELSE 1)
        of(digits) == written(digits, value.e + Len(digits))
    IN sign \o of(NatStr(Abs(value.c)))

\* text.rstrip("0")
RECURSIVE RStripZeros(_)
RStripZeros(text) ==
    IF text # "" /\ SubSeq(text, Len(text), Len(text)) = "0"
      THEN RStripZeros(SubSeq(text, 1, Len(text) - 1))
    ELSE text

\* Mutation of _format_decimal: the mantissa of a scientific literal is
\* written as str() gives it.
format_decimal_text_bare_mantissa(value) ==
    LET plain(stripped) ==
          IF SubSeq(stripped, Len(stripped), Len(stripped)) = "." THEN stripped \o "0"
          ELSE stripped
        formatted(text) ==
          IF Contains(text, "E") THEN text
          ELSE IF Contains(text, ".") THEN plain(RStripZeros(text))
          ELSE text \o ".0"
    IN formatted(decimal_str(DecNorm(value)))

\* _format_decimal(value): the text it returns.
format_decimal_text(value) ==
    LET scientific(mantissa, exponent) ==
          (IF Contains(mantissa, ".") THEN mantissa ELSE mantissa \o ".0")
            \o "E" \o exponent
        plain(stripped) ==
          IF SubSeq(stripped, Len(stripped), Len(stripped)) = "." THEN stripped \o "0"
          ELSE stripped
        checked(text) == IF text = "" \/ text = ".0" THEN "0.0" ELSE text
        formatted(text) ==
          IF Contains(text, "E")
            THEN scientific(SubSeq(text, 1, FindSub(text, "E") - 1),
                            SubSeq(text, FindSub(text, "E") + 1, Len(text)))
          ELSE IF Contains(text, ".") THEN checked(plain(RStripZeros(text)))
          ELSE checked(text \o ".0")
    IN formatted(decimal_str(DecNorm(value)))

-----------------------------------------------------------------------------
(* SpecLiteral: _format_decimal applied to one finite Decimal.  `input` is  *)
(* the value, `xml` the literal returned.                                   *)

MaxLiteralCoeff == 120   \* largest coefficient formatted
MaxLiteralExp == 8       \* largest exponent formatted, of either sign

InitLiteral ==
    /\ pc = "literal_start"
    /\ entry = "_format_decimal"
    /\ input \in {Dec(c, e) : c \in -MaxLiteralCoeff..MaxLiteralCoeff,
                              e \in -MaxLiteralExp..MaxLiteralExp}
    /\ xml = Null
    /\ questions = Unused /\ total_points = Unused /\ errors = Unused /\ bounds = Unused
    /\ calls = Unused /\ status = Unused /\ warnings = Unused /\ zip = Unused
    /\ raised = Unused /\ physical = Unused /\ fail_prompt = Unused

FormatDecimal ==
    /\ pc = "literal_start"
    /\ xml' = format_decimal_text(input)
    /\ pc' = "literal_done"
    /\ UNCHANGED <<questions, total_points, input, errors, bounds, entry, calls, status,
                   warnings, zip, raised, physical, fail_prompt>>

NextLiteral == FormatDecimal

SpecLiteral == InitLiteral /\ [][NextLiteral]_vars

-----------------------------------------------------------------------------
(* C26: _format_decimal returns, for every finite Decimal value, a literal  *)
(* whose mantissa contains an explicit decimal point followed by at least   *)
(* one digit: plain integers gain ".0" and scientific notation with an      *)
(* integer mantissa gains ".0" in the mantissa (4 -> "4.0",                 *)
(* 5E+1 -> "5.0E+1").                                                       *)

\* The part of a literal before its exponent.
MantissaOf(text) ==
    IF Contains(text, "E") THEN SubSeq(text, 1, FindSub(text, "E") - 1) ELSE text

PointThenDigit(text) ==
    /\ Contains(text, ".")
    /\ FindSub(text, ".") < Len(text)
    /\ IsDigit(SubSeq(text, FindSub(text, ".") + 1, FindSub(text, ".") + 1))

C26_PlainInteger ==
    /\ pc = "literal_done"
    /\ input = Dec(4, 0)
    /\ xml = "4.0"

-----------------------------------------------------------------------------
(* C27: every Title:, TotalPoints: or KeepPoints: line that occurs before   *)
(* the first '---' separator line of the input sets the corresponding       *)
(* quiz-level value (title, target total, keep-points flag) used for the    *)
(* parse.                                                                   *)

\* The lines before the first separator that start with a directive.
HeadDirectives(lines, header) ==
    {i \in 1..Len(lines) :
       /\ StartsWith(Lower(lines[i]), header)
       /\ \A j \in 1..i : Strip(lines[j]) # "---"}

GreatestOf(S) == CHOOSE i \in S : \A j \in S : j <= i

\* The value of the last such line, as parse_text reads a directive.
HeadValue(lines, header) == AfterColon(lines[GreatestOf(HeadDirectives(lines, header))])

C27_HeadDirectivesApply ==
    (TextRun /\ Imported) =>
      /\ HeadDirectives(input, "title:") # {}
           => split_blocks(input).title = HeadValue(input, "title:")
      /\ (HeadDirectives(input, "totalpoints:") # {}
            /\ FloatOf(HeadValue(input, "totalpoints:"))[1])
           => /\ TargetTotal(input) = FloatOf(HeadValue(input, "totalpoints:"))[2]
              /\ (pc = "import_done" /\ ~KeepPoints(input) /\ HasScorable(questions))
                   => ScorablePointSum(questions) = FloatOf(HeadValue(input, "totalpoints:"))[2]
      /\ HeadDirectives(input, "keeppoints:") # {}
           => KeepPoints(input) = (Lower(HeadValue(input, "keeppoints:")) \in {"true", "t", "1", "yes"})

\* What the line loop does honour: the directives that come before any
\* other line of the text.
LeadingDirectives(lines, header) ==
    {i \in HeadDirectives(lines, header) :
       \A j \in 1..i : \E h \in {"title:", "totalpoints:", "keeppoints:"} :
                          StartsWith(Lower(lines[j]), h)}

C27_LeadingDirectivesApply ==
    (TextRun /\ Imported) =>
      /\ LeadingDirectives(input, "title:") # {}
           => split_blocks(input).title
                = AfterColon(input[GreatestOf(LeadingDirectives(input, "title:"))])
      /\ LeadingDirectives(input, "totalpoints:") # {}
           => TargetTotal(input)
                = FloatOf(AfterColon(input[GreatestOf(LeadingDirectives(input, "totalpoints:"))]))[2]
      /\ LeadingDirectives(input, "keeppoints:") # {} => KeepPoints(input)

-----------------------------------------------------------------------------
(* C28: balance_answers only reorders choices within each question: every   *)
(* MC question (with exactly one correct choice) and every MA question      *)
(* keeps exactly the choice texts it had before, no choice ever moves to a  *)
(* different question, and the set of choice texts marked correct in each   *)
(* question is unchanged, for every outcome of the random choices.          *)

\* How often a text occurs among the choices of a question.
TextCount(q, text) == Cardinality({k \in 1..Len(q.choices) : q.choices[k].text = text})

ChoiceTextsOf(q) == {q.choices[k].text : k \in 1..Len(q.choices)}

CorrectTextsOf(q) == {q.choices[k].text : k \in {j \in 1..Len(q.choices) : q.choices[j].correct}}

\* The questions the claim speaks of.
Reordered(q) ==
    \/ q.qtype = "MA"
    \/ q.qtype = "MC" /\ Cardinality({k \in 1..Len(q.choices) : q.choices[k].correct}) = 1

SameChoices(before, after) ==
    /\ Len(after.choices) = Len(before.choices)
    /\ ChoiceTextsOf(after) = ChoiceTextsOf(before)
    /\ \A text \in ChoiceTextsOf(before) : TextCount(after, text) = TextCount(before, text)
    /\ CorrectTextsOf(after) = CorrectTextsOf(before)

C28_ChoicesStayInTheirQuestion ==
    pc = "balanced" =>
        /\ Len(questions) = Len(input)
        /\ \A i \in 1..Len(input) :
             Reordered(input[i]) =>
               /\ questions[i].qtype = input[i].qtype
               /\ questions[i].prompt = input[i].prompt
               /\ SameChoices(input[i], questions[i])

\* A quiz of five questions, each with its own choice texts, has been
\* balanced: the MA question and three MC questions stand in a new order of
\* their own choices.
C28_Witness ==
    /\ pc = "balanced"
    /\ Len(input) = 5
    /\ input[2].qtype = "MA" /\ Cardinality(CorrectTextsOf(input[2])) = 2
    /\ \A i \in {1, 2, 3, 5} :
         /\ questions[i].choices # input[i].choices
         /\ SameChoices(input[i], questions[i])
         /\ \A j \in 1..5 : j # i => ChoiceTextsOf(input[i]) \cap ChoiceTextsOf(input[j]) = {}

-----------------------------------------------------------------------------
(* SpecBlock: _parse_block on one block, one action for each turn of its    *)
(* line loop and one for the construction of the question after the loop.   *)
(* `input` is the block, `calls` the lines scanned so far and `status` the  *)
(* local variables of _parse_block.                                         *)

MaxBlockLines == 4     \* longest block scanned

\* Type: changes, the headers that open a collection mode, and lines that
\* are collected under the mode that is open.
ScanLines ==
    {"Type: ORDERING", "Type: CATEGORIZATION", "Prompt: p", "Items:", "Categories:",
     "Choices:", "- a => c"}

InitBlock ==
    /\ pc = "scan"
    /\ entry = "_parse_block"
    /\ input \in SeqsUpTo(ScanLines, MaxBlockLines)
    /\ calls = <<>>
    /\ status = BlockStart
    /\ questions = <<>>
    /\ raised = Null
    /\ total_points = Unused /\ errors = Unused /\ bounds = Unused /\ warnings = Unused
    /\ xml = Unused /\ zip = Unused /\ physical = Unused /\ fail_prompt = Unused

\* for raw in lines: one turn of the loop, which a ValueError leaves.
ScanLine ==
    /\ pc = "scan"
    /\ Len(calls) < Len(input)
    /\ status' = block_line(status, input[Len(calls) + 1])
    /\ calls' = Append(calls, input[Len(calls) + 1])
    /\ raised' = status'.raised
    /\ pc' = IF status'.raised # Null THEN "block_raised" ELSE "scan"
    /\ UNCHANGED <<questions, total_points, input, errors, bounds, entry, warnings, xml,
                   zip, physical, fail_prompt>>

\* After the last line: the question is built from the fields collected,
\* nothing is returned for a block without a type, or a ValueError is raised.
BuildQuestion ==
    /\ pc = "scan"
    /\ Len(calls) = Len(input)
    /\ raised' = block_question(status).raised
    /\ questions' = IF block_question(status).raised # Null
                       \/ block_question(status).question = None
                      THEN <<>>
                    ELSE <<Get(block_question(status).question)>>
    /\ pc' = IF block_question(status).raised # Null THEN "block_raised" ELSE "block_done"
    /\ UNCHANGED <<total_points, input, errors, bounds, entry, calls, status, warnings, xml,
                   zip, physical, fail_prompt>>

NextBlock == ScanLine \/ BuildQuestion

SpecBlock == InitBlock /\ [][NextBlock]_vars

-----------------------------------------------------------------------------
(* C29: at every point while _parse_block scans the lines of a block, at    *)
(* most one collection mode (prompt, choices, pairs, accept, ordering       *)
(* items, categories, category items, distractors) is active, whatever      *)
(* sequence of header lines and Type: changes the block contains.           *)

C29_AtMostOneModeActive == Cardinality(status.flags) <= 1

\* Items: of a categorization block, a change of type and Items: of the
\* ordering block have been scanned: the ordering mode alone is active.
C29_Witness ==
    /\ pc = "scan"
    /\ calls = <<"Type: CATEGORIZATION", "Items:", "Type: ORDERING", "Items:">>
    /\ status.flags = {"in_ordering_items"}

-----------------------------------------------------------------------------
(* SpecNormalize: TextOutlineParser._normalize_points on a non-empty list   *)
(* of points and a target total, one pass of its while loop per step.       *)

MaxNormalizeLen == 3

MaxNormalizePoints == 3

MaxNormalizeTarget == 6

NormalizeLists == SeqsUpTo(0..MaxNormalizePoints, MaxNormalizeLen) \ {<<>>}

\* _normalize_points up to its while loop: the raw values (numerators over
\* one denominator), the rounded values and diff.
normalize_start(points, target_total) ==
    LET n == Len(points)
        current_total == SumSeq([i \in 1..n |-> IF points[i] > 0 THEN points[i] ELSE 0])
        den == IF current_total <= 0 THEN n ELSE current_total
        num == [i \in 1..n |->
                  IF current_total <= 0 THEN target_total ELSE points[i] * target_total]
        rounded == [i \in 1..n |-> RoundHalfEven(num[i], den)]
    IN [num |-> num, den |-> den, rounded |-> rounded,
        diff |-> target_total - SumSeq(rounded)]

\* One pass of `while diff != 0 and indices` for diff # 0: the values of
\* rounded and diff it can end with.  The adding pass raises the first
\* entries in the order of rank_add until diff is 0 or the list ends; the
\* subtracting pass lowers only entries above 1.
adjust_pass(num, den, rounded, diff) ==
    LET n == Len(rounded)
        able == {i \in 1..n : rounded[i] > 1}
        add_less(i, j) == rank_add_less(num, den, rounded, i, j)
        sub_less(i, j) == rank_sub_less(num, den, rounded, i, j)
        added == IF diff < n THEN diff ELSE n
        subtracted == IF -diff < Cardinality(able) THEN -diff ELSE Cardinality(able)
    IN IF diff > 0
         THEN {[rounded |-> [i \in 1..n |-> IF i \in S THEN rounded[i] + 1 ELSE rounded[i]],
                diff |-> diff - added] :
                 S \in FirstSorted(1..n, added, add_less)}
       ELSE {[rounded |-> [i \in 1..n |-> IF i \in S THEN rounded[i] - 1 ELSE rounded[i]],
              diff |-> diff + subtracted] :
               S \in FirstSorted(able, subtracted, sub_less)}

InitNormalize ==
    /\ pc = "normalize_start"
    /\ input \in [points : NormalizeLists, target_total : 0..MaxNormalizeTarget]
    /\ status = Unused
    /\ questions = <<>>
    /\ raised = Null
    /\ total_points = Unused /\ errors = Unused /\ bounds = Unused /\ calls = Unused
    /\ entry = "TextOutlineParser._normalize_points"
    /\ warnings = Unused /\ xml = Unused /\ zip = Unused
    /\ physical = Unused /\ fail_prompt = Unused

\* The statements before the loop.
NormalizeStart ==
    /\ pc = "normalize_start"
    /\ status' = normalize_start(input.points, input.target_total)
    /\ pc' = "normalize_while"
    /\ UNCHANGED <<questions, total_points, input, errors, bounds, entry, calls, warnings,
                   xml, zip, raised, physical, fail_prompt>>

\* One pass of the while loop.
AdjustPass ==
    /\ pc = "normalize_while"
    /\ status.diff # 0
    /\ \E r \in adjust_pass(status.num, status.den, status.rounded, status.diff) :
         status' = [status EXCEPT !.rounded = r.rounded, !.diff = r.diff]
    /\ UNCHANGED <<pc, questions, total_points, input, errors, bounds, entry, calls,
                   warnings, xml, zip, raised, physical, fail_prompt>>

\* The loop has ended: the rounded values become the points.
NormalizeReturn ==
    /\ pc = "normalize_while"
    /\ status.diff = 0
    /\ questions' = status.rounded
    /\ pc' = "normalize_done"
    /\ UNCHANGED <<total_points, input, errors, bounds, entry, calls, status, warnings,
                   xml, zip, raised, physical, fail_prompt>>

NextNormalize == NormalizeStart \/ AdjustPass \/ NormalizeReturn

SpecNormalize == InitNormalize /\ [][NextNormalize]_vars

\* The call runs on: each statement that can be executed is executed.
SpecNormalizeLive ==
    /\ SpecNormalize
    /\ WF_vars(NormalizeStart)
    /\ WF_vars(AdjustPass)
    /\ WF_vars(NormalizeReturn)

-----------------------------------------------------------------------------
(* C30: TextOutlineParser._normalize_points terminates for every non-empty  *)
(* list of scorable questions and every target total: its                   *)
(* rounding-adjustment loop always reaches diff = 0 after finitely many     *)
(* steps.                                                                   *)

C30_NormalizeTerminates == <>(pc = "normalize_done")

\* The loop is left whenever diff is above 0, or below 0 with enough to
\* take from the entries above 1.
C30_TerminatesWithRoom ==
    (/\ pc = "normalize_while"
     /\ \/ status.diff >= 0
        \/ -status.diff <= SumSeq([i \in 1..Len(status.rounded) |->
                                     IF status.rounded[i] > 1 THEN status.rounded[i] - 1
                                     ELSE 0]))
      ~> (pc = "normalize_done")

\* A pass that finds no entry above 1 leaves rounded and diff as they were.
C30_PassWithoutEffect ==
    (/\ pc = "normalize_while"
     /\ status.diff < 0
     /\ \A i \in 1..Len(status.rounded) : status.rounded[i] <= 1)
      => adjust_pass(status.num, status.den, status.rounded, status.diff)
           = {[rounded |-> status.rounded, diff |-> status.diff]}

=============================================================================
